---------------------------- MODULE Spec2Model ----------------------------
(***************************************************************************)
(* A model of the noodleslove/nextjs-blog repository.                      *)
(*                                                                         *)
(* The repository holds static content: project lists (object literals    *)
(* exported as a module default) and blog posts (a metadata header and a   *)
(* body).  Three of the posts quote the Go code of a toy blockchain; the   *)
(* quoted code is modelled here as the state machines it describes.        *)
(*                                                                         *)
(*   SpecData  the content files: module evaluation, a reader of project   *)
(*             records, and the reading of a post's metadata header        *)
(*   SpecP4    the Part 4 post: createblockchain / send on a chain that    *)
(*             is scanned for unspent outputs                              *)
(*   SpecDB4   the Part 4 post: the same commands on the database file     *)
(*   SpecP5    the Part 5 section: addresses and signatures                *)
(*   SpecP6    the Part 6 post: createblockchain / send with the UTXO set  *)
(*   SpecMerkle  the Part 6 post: the Merkle tree of a block's transactions*)
(*   SpecP1    the Part 1 post: the in-memory chain                        *)
(*   SpecP3    the Part 3 post: the chain persisted in a key-value file    *)
(*   SpecCLI3  the Part 3 post: one command-line invocation after another  *)
(*                                                                         *)
(* Text is modelled as a sequence of one-character strings; a character    *)
(* outside ASCII is the string "U+XXXX" of its code point.                 *)
(***************************************************************************)
EXTENDS Integers, Sequences, FiniteSets, TLC

VARIABLES
  exports,   \* SpecData: module file -> the list it exports, or Unset
  card,      \* SpecData: the project record the reader holds, or Unset
  fm,        \* SpecData: post file -> the result of reading it, or Unset
  bc4,       \* SpecP4: the stored chain, oldest block first (<<>>: no database file)
  out4,      \* SpecP4: the outcome of the last command
  db4,       \* SpecDB4: the database file of Part 4: whether it exists, its bucket
  run4,      \* SpecDB4: what the last command printed, its status, the tip it held
  bc6,       \* SpecP6: the stored chain, oldest block first (<<>>: no database file)
  utxo,      \* SpecP6: the UTXO bucket, transaction ID -> list of outputs
  out6,      \* SpecP6: the outcome of the last command
  mt,        \* SpecMerkle: the call of HashTransactions under way
  bc1,       \* SpecP1: the in-memory chain, oldest block first (<<>>: not yet made)
  db3,       \* SpecP3: the blocks bucket of the database file, key -> value
  tip3,      \* SpecP3: the Blockchain value the program holds, or Unset
  it3,       \* SpecP3: the printChain loop: its iterator and the blocks it got
  log3,      \* SpecP3: the blocks made so far, in the order they were stored
  cli3,      \* SpecCLI3: the invocation under way, its output and exit status
  p5         \* SpecP5: the call under way of the Part 5 functions and its result

vars == <<exports, card, fm, bc4, out4, db4, run4, bc6, utxo, out6, mt, bc1, db3, tip3, it3, log3, cli3, p5>>

dataVars == <<exports, card, fm>>
p4Vars == <<bc4, out4, db4, run4>>
p6Vars == <<bc6, utxo, out6>>
merkleVars == <<mt>>
p1Vars == <<bc1>>
p3Vars == <<db3, tip3, it3, log3, cli3>>
p5Vars == <<p5>>

Unset == [set |-> FALSE]

(***************************************************************************)
(* The project lists.  A JavaScript string value is [t |-> "string", v].   *)
(***************************************************************************)
projectsData_js ==
  << (* record 1 *)
     (* title: A Search Engine *)
     [title |-> [t |-> "string", v |->
          <<"A"," ","S","e","a","r","c","h"," ","E","n","g","i","n","e">>],
     (* description: What if you could look up any information in the world? Webpages, images, videos... *)
      description |-> [t |-> "string", v |->
          <<"W","h","a","t"," ","i","f"," ","y","o","u"," ","c","o","u","l","d"," ","l","o","o","k"," ",
            "u","p"," ","a","n","y"," ","i","n","f","o","r","m","a","t","i","o","n"," ","i","n"," ","t",
            "h","e"," ","w","o","r","l","d","?"," ","W","e","b","p","a","g","e","s",","," ","i","m","a",
            "g","e","s",","," ","v","i","d","e","o","s","\n"," "," "," "," ","a","n","d"," ","m","o",
            "r","e","."," ","G","o","o","g","l","e"," ","h","a","s"," ","m","a","n","y"," ","f","e","a",
            "t","u","r","e","s"," ","t","o"," ","h","e","l","p"," ","y","o","u"," ","f","i","n","d"," ",
            "e","x","a","c","t","l","y"," ","w","h","a","t"," ","y","o","u","'","r","e"," ","l","o","o",
            "k","i","n","g","\n"," "," "," "," ","f","o","r",".">>],
     (* imgSrc: /static/images/google.png *)
      imgSrc |-> [t |-> "string", v |->
          <<"/","s","t","a","t","i","c","/","i","m","a","g","e","s","/","g","o","o","g","l","e",".","p",
            "n","g">>],
     (* href: https://www.google.com *)
      href |-> [t |-> "string", v |->
          <<"h","t","t","p","s",":","/","/","w","w","w",".","g","o","o","g","l","e",".","c","o","m">>]],
     (* record 2 *)
     (* title: Blockchain in Go *)
     [title |-> [t |-> "string", v |->
          <<"B","l","o","c","k","c","h","a","i","n"," ","i","n"," ","G","o">>],
     (* description: A simplified blockchain implementation in Golang *)
      description |-> [t |-> "string", v |->
          <<"A"," ","s","i","m","p","l","i","f","i","e","d"," ","b","l","o","c","k","c","h","a","i","n",
            " ","i","m","p","l","e","m","e","n","t","a","t","i","o","n"," ","i","n"," ","G","o","l","a",
            "n","g">>],
     (* imgSrc: /static/images/blockchain.jpg *)
      imgSrc |-> [t |-> "string", v |->
          <<"/","s","t","a","t","i","c","/","i","m","a","g","e","s","/","b","l","o","c","k","c","h","a",
            "i","n",".","j","p","g">>],
     (* href: https://github.com/noodleslove/blockchain-go *)
      href |-> [t |-> "string", v |->
          <<"h","t","t","p","s",":","/","/","g","i","t","h","u","b",".","c","o","m","/","n","o","o","d",
            "l","e","s","l","o","v","e","/","b","l","o","c","k","c","h","a","i","n","-","g","o">>]] >>

\* A list whose first href was typed without its scheme: www.google.com
projectsData_part_001_noScheme ==
  [projectsData_js EXCEPT ![1].href.v = SubSeq(projectsData_js[1].href.v, 9, 22)]

projectsData_part_001 ==
  << (* record 1 *)
     (* title: House of Representatives Analysis *)
     [title |-> [t |-> "string", v |->
          <<"H","o","u","s","e"," ","o","f"," ","R","e","p","r","e","s","e","n","t","a","t","i","v","e",
            "s"," ","A","n","a","l","y","s","i","s">>],
     (* description: This project uses public data about the stock trades made by members of the US H... *)
      description |-> [t |-> "string", v |->
          <<"T","h","i","s"," ","p","r","o","j","e","c","t"," ","u","s","e","s"," ","p","u","b","l","i",
            "c"," ","d","a","t","a"," ","a","b","o","u","t"," ","t","h","e"," ","s","t","o","c","k"," ",
            "t","r","a","d","e","s"," ","m","a","d","e"," ","b","y"," ","m","e","m","b","e","r","s"," ",
            "o","f"," ","t","h","e"," ","U","S"," ","H","o","u","s","e"," ","o","f"," ","R","e","p","r",
            "e","s","e","n","t","a","t","i","v","e","s",".">>],
     (* imgSrc: /static/images/stock.png *)
      imgSrc |-> [t |-> "string", v |->
          <<"/","s","t","a","t","i","c","/","i","m","a","g","e","s","/","s","t","o","c","k",".","p","n",
            "g">>],
     (* href: https://github.com/noodleslove/House-of-Representative-Analysis-I *)
      href |-> [t |-> "string", v |->
          <<"h","t","t","p","s",":","/","/","g","i","t","h","u","b",".","c","o","m","/","n","o","o","d",
            "l","e","s","l","o","v","e","/","H","o","u","s","e","-","o","f","-","R","e","p","r","e","s",
            "e","n","t","a","t","i","v","e","-","A","n","a","l","y","s","i","s","-","I">>]],
     (* record 2 *)
     (* title: Blockchain in Go *)
     [title |-> [t |-> "string", v |->
          <<"B","l","o","c","k","c","h","a","i","n"," ","i","n"," ","G","o">>],
     (* description: A simplified blockchain implementation in Golang *)
      description |-> [t |-> "string", v |->
          <<"A"," ","s","i","m","p","l","i","f","i","e","d"," ","b","l","o","c","k","c","h","a","i","n",
            " ","i","m","p","l","e","m","e","n","t","a","t","i","o","n"," ","i","n"," ","G","o","l","a",
            "n","g">>],
     (* imgSrc: /static/images/blockchain.jpg *)
      imgSrc |-> [t |-> "string", v |->
          <<"/","s","t","a","t","i","c","/","i","m","a","g","e","s","/","b","l","o","c","k","c","h","a",
            "i","n",".","j","p","g">>],
     (* href: https://github.com/noodleslove/blockchain-go *)
      href |-> [t |-> "string", v |->
          <<"h","t","t","p","s",":","/","/","g","i","t","h","u","b",".","c","o","m","/","n","o","o","d",
            "l","e","s","l","o","v","e","/","b","l","o","c","k","c","h","a","i","n","-","g","o">>]] >>

\* A list whose second record lost its imgSrc and whose first holds a number.
projectsData_part_002_badShape ==
  << [projectsData_js[1] EXCEPT !.title = [t |-> "number", v |-> 1]],
     [title |-> projectsData_js[2].title,
      description |-> projectsData_js[2].description,
      href |-> projectsData_js[2].href] >>

projectsData_part_002 ==
  << (* record 1 *)
     (* title: UCSD CSES Website *)
     [title |-> [t |-> "string", v |->
          <<"U","C","S","D"," ","C","S","E","S"," ","W","e","b","s","i","t","e">>],
     (* description: A website for UCSD CSES, a student organization at UC San Diego. *)
      description |-> [t |-> "string", v |->
          <<"A"," ","w","e","b","s","i","t","e"," ","f","o","r"," ","U","C","S","D"," ","C","S","E","S",
            ","," ","a"," ","s","t","u","d","e","n","t"," ","o","r","g","a","n","i","z","a","t","i","o",
            "n"," ","a","t"," ","U","C"," ","S","a","n"," ","D","i","e","g","o",".">>],
     (* imgSrc: /static/images/ucsd-cses.jpg *)
      imgSrc |-> [t |-> "string", v |->
          <<"/","s","t","a","t","i","c","/","i","m","a","g","e","s","/","u","c","s","d","-","c","s","e",
            "s",".","j","p","g">>],
     (* href: https://github.com/Will-Hsu/cses_webdev *)
      href |-> [t |-> "string", v |->
          <<"h","t","t","p","s",":","/","/","g","i","t","h","u","b",".","c","o","m","/","W","i","l","l",
            "-","H","s","u","/","c","s","e","s","_","w","e","b","d","e","v">>]],
     (* record 2 *)
     (* title: NutriPal *)
     [title |-> [t |-> "string", v |->
          <<"N","u","t","r","i","P","a","l">>],
     (* description: NutriPal is a user-friendly diet information website that aims to simplify the d... *)
      description |-> [t |-> "string", v |->
          <<"N","u","t","r","i","P","a","l"," ","i","s"," ","a"," ","u","s","e","r","-","f","r","i","e",
            "n","d","l","y"," ","d","i","e","t"," ","i","n","f","o","r","m","a","t","i","o","n"," ","w",
            "e","b","s","i","t","e"," ","t","h","a","t"," ","a","i","m","s"," ","t","o"," ","s","i","m",
            "p","l","i","f","y"," ","t","h","e"," ","d","a","i","l","y"," ","d","i","e","t"," ","l","o",
            "g","g","i","n","g"," ","p","r","o","c","e","s","s",".">>],
     (* imgSrc: /static/images/nutri-pal.jpg *)
      imgSrc |-> [t |-> "string", v |->
          <<"/","s","t","a","t","i","c","/","i","m","a","g","e","s","/","n","u","t","r","i","-","p","a",
            "l",".","j","p","g">>],
     (* href: https://github.com/noodleslove/nutriPal *)
      href |-> [t |-> "string", v |->
          <<"h","t","t","p","s",":","/","/","g","i","t","h","u","b",".","c","o","m","/","n","o","o","d",
            "l","e","s","l","o","v","e","/","n","u","t","r","i","P","a","l">>]],
     (* record 3 *)
     (* title: LFM Recommender System *)
     [title |-> [t |-> "string", v |->
          <<"L","F","M"," ","R","e","c","o","m","m","e","n","d","e","r"," ","S","y","s","t","e","m">>],
     (* description: A Yelp Recommender System using Latent Factor Collaborative Filtering to provide... *)
      description |-> [t |-> "string", v |->
          <<"A"," ","Y","e","l","p"," ","R","e","c","o","m","m","e","n","d","e","r"," ","S","y","s","t",
            "e","m"," ","u","s","i","n","g"," ","L","a","t","e","n","t"," ","F","a","c","t","o","r"," ",
            "C","o","l","l","a","b","o","r","a","t","i","v","e"," ","F","i","l","t","e","r","i","n","g",
            " ","t","o"," ","p","r","o","v","i","d","e"," ","p","e","r","s","o","n","a","l","i","z","e",
            "d"," ","b","u","s","i","n","e","s","s"," ","r","e","c","o","m","m","e","n","d","a","t","i",
            "o","n","s"," ","t","h","r","o","u","g","h"," ","a"," ","w","e","b"," ","a","p","p","l","i",
            "c","a","t","i","o","n",","," ","e","n","h","a","n","c","i","n","g"," ","u","s","e","r"," ",
            "e","x","p","e","r","i","e","n","c","e"," ","a","n","d"," ","e","n","g","a","g","e","m","e",
            "n","t",".">>],
     (* imgSrc: /static/images/lfm.jpg *)
      imgSrc |-> [t |-> "string", v |->
          <<"/","s","t","a","t","i","c","/","i","m","a","g","e","s","/","l","f","m",".","j","p","g">>],
     (* href: https://drive.google.com/file/d/1cbem5KYzXJhihUirzvo_5JAMdW6Dw8LF/view?usp=shari... *)
      href |-> [t |-> "string", v |->
          <<"h","t","t","p","s",":","/","/","d","r","i","v","e",".","g","o","o","g","l","e",".","c","o",
            "m","/","f","i","l","e","/","d","/","1","c","b","e","m","5","K","Y","z","X","J","h","i","h",
            "U","i","r","z","v","o","_","5","J","A","M","d","W","6","D","w","8","L","F","/","v","i","e",
            "w","?","u","s","p","=","s","h","a","r","i","n","g">>]],
     (* record 4 *)
     (* title: House of Representatives Analysis II *)
     [title |-> [t |-> "string", v |->
          <<"H","o","u","s","e"," ","o","f"," ","R","e","p","r","e","s","e","n","t","a","t","i","v","e",
            "s"," ","A","n","a","l","y","s","i","s"," ","I","I">>],
     (* description: This project analyzes stock trades made by members of the 116th U.S. House of Re... *)
      description |-> [t |-> "string", v |->
          <<"T","h","i","s"," ","p","r","o","j","e","c","t"," ","a","n","a","l","y","z","e","s"," ","s",
            "t","o","c","k"," ","t","r","a","d","e","s"," ","m","a","d","e"," ","b","y"," ","m","e","m",
            "b","e","r","s"," ","o","f"," ","t","h","e"," ","1","1","6","t","h"," ","U",".","S","."," ",
            "H","o","u","s","e"," ","o","f"," ","R","e","p","r","e","s","e","n","t","a","t","i","v","e",
            "s",","," ","c","o","m","b","i","n","i","n","g"," ","i","t"," ","w","i","t","h"," ","i","n",
            "f","o","r","m","a","t","i","o","n"," ","o","n"," ","t","h","e","i","r"," ","p","o","l","i",
            "t","i","c","a","l"," ","a","f","f","i","l","i","a","t","i","o","n"," ","t","o"," ","e","v",
            "a","l","u","a","t","e"," ","m","i","s","s","i","n","g","n","e","s","s"," ","a","s","s","o",
            "c","i","a","t","i","o","n","s"," ","i","n"," ","t","h","e"," ","d","a","t","a","s","e","t",
            ".">>],
     (* imgSrc: /static/images/stock-2.jpg *)
      imgSrc |-> [t |-> "string", v |->
          <<"/","s","t","a","t","i","c","/","i","m","a","g","e","s","/","s","t","o","c","k","-","2",".",
            "j","p","g">>],
     (* href: https://drive.google.com/file/d/10AgiJjXxIM7ZC-H-ScfD9iZHK3lsnAdt/view?usp=shari... *)
      href |-> [t |-> "string", v |->
          <<"h","t","t","p","s",":","/","/","d","r","i","v","e",".","g","o","o","g","l","e",".","c","o",
            "m","/","f","i","l","e","/","d","/","1","0","A","g","i","J","j","X","x","I","M","7","Z","C",
            "-","H","-","S","c","f","D","9","i","Z","H","K","3","l","s","n","A","d","t","/","v","i","e",
            "w","?","u","s","p","=","s","h","a","r","i","n","g">>]],
     (* record 5 *)
     (* title: House of Representatives Analysis I *)
     [title |-> [t |-> "string", v |->
          <<"H","o","u","s","e"," ","o","f"," ","R","e","p","r","e","s","e","n","t","a","t","i","v","e",
            "s"," ","A","n","a","l","y","s","i","s"," ","I">>],
     (* description: This project analyzes stock trades made by members of the 116th U.S. House of Re... *)
      description |-> [t |-> "string", v |->
          <<"T","h","i","s"," ","p","r","o","j","e","c","t"," ","a","n","a","l","y","z","e","s"," ","s",
            "t","o","c","k"," ","t","r","a","d","e","s"," ","m","a","d","e"," ","b","y"," ","m","e","m",
            "b","e","r","s"," ","o","f"," ","t","h","e"," ","1","1","6","t","h"," ","U",".","S","."," ",
            "H","o","u","s","e"," ","o","f"," ","R","e","p","r","e","s","e","n","t","a","t","i","v","e",
            "s",","," ","c","o","m","b","i","n","i","n","g"," ","i","t"," ","w","i","t","h"," ","i","n",
            "f","o","r","m","a","t","i","o","n"," ","o","n"," ","t","h","e","i","r"," ","p","o","l","i",
            "t","i","c","a","l"," ","a","f","f","i","l","i","a","t","i","o","n"," ","t","o"," ","e","v",
            "a","l","u","a","t","e"," ","m","i","s","s","i","n","g","n","e","s","s"," ","a","s","s","o",
            "c","i","a","t","i","o","n","s"," ","i","n"," ","t","h","e"," ","d","a","t","a","s","e","t",
            ".">>],
     (* imgSrc: /static/images/stock.png *)
      imgSrc |-> [t |-> "string", v |->
          <<"/","s","t","a","t","i","c","/","i","m","a","g","e","s","/","s","t","o","c","k",".","p","n",
            "g">>],
     (* href: https://drive.google.com/file/d/1M3fHZAFZXAAp5A9QwROB91KcIcK2SG03/view?usp=shari... *)
      href |-> [t |-> "string", v |->
          <<"h","t","t","p","s",":","/","/","d","r","i","v","e",".","g","o","o","g","l","e",".","c","o",
            "m","/","f","i","l","e","/","d","/","1","M","3","f","H","Z","A","F","Z","X","A","A","p","5",
            "A","9","Q","w","R","O","B","9","1","K","c","I","c","K","2","S","G","0","3","/","v","i","e",
            "w","?","u","s","p","=","s","h","a","r","i","n","g">>]],
     (* record 6 *)
     (* title: Blockchain in Go *)
     [title |-> [t |-> "string", v |->
          <<"B","l","o","c","k","c","h","a","i","n"," ","i","n"," ","G","o">>],
     (* description: A simplified blockchain implementation in Golang *)
      description |-> [t |-> "string", v |->
          <<"A"," ","s","i","m","p","l","i","f","i","e","d"," ","b","l","o","c","k","c","h","a","i","n",
            " ","i","m","p","l","e","m","e","n","t","a","t","i","o","n"," ","i","n"," ","G","o","l","a",
            "n","g">>],
     (* imgSrc: /static/images/blockchain.jpg *)
      imgSrc |-> [t |-> "string", v |->
          <<"/","s","t","a","t","i","c","/","i","m","a","g","e","s","/","b","l","o","c","k","c","h","a",
            "i","n",".","j","p","g">>],
     (* href: https://github.com/noodleslove/blockchain-go *)
      href |-> [t |-> "string", v |->
          <<"h","t","t","p","s",":","/","/","g","i","t","h","u","b",".","c","o","m","/","n","o","o","d",
            "l","e","s","l","o","v","e","/","b","l","o","c","k","c","h","a","i","n","-","g","o">>]],
     (* record 7 *)
     (* title: Jable Tv Notification Service *)
     [title |-> [t |-> "string", v |->
          <<"J","a","b","l","e"," ","T","v"," ","N","o","t","i","f","i","c","a","t","i","o","n"," ","S",
            "e","r","v","i","c","e">>],
     (* description: An awesome web scraper powered by CloudScraper to collect video data from jable.... *)
      description |-> [t |-> "string", v |->
          <<"A","n"," ","a","w","e","s","o","m","e"," ","w","e","b"," ","s","c","r","a","p","e","r"," ",
            "p","o","w","e","r","e","d"," ","b","y"," ","C","l","o","u","d","S","c","r","a","p","e","r",
            " ","t","o"," ","c","o","l","l","e","c","t"," ","v","i","d","e","o"," ","d","a","t","a"," ",
            "f","r","o","m"," ","j","a","b","l","e",".","t","v">>],
     (* imgSrc: /static/images/jable.png *)
      imgSrc |-> [t |-> "string", v |->
          <<"/","s","t","a","t","i","c","/","i","m","a","g","e","s","/","j","a","b","l","e",".","p","n",
            "g">>],
     (* href: https://github.com/noodleslove/jable-py *)
      href |-> [t |-> "string", v |->
          <<"h","t","t","p","s",":","/","/","g","i","t","h","u","b",".","c","o","m","/","n","o","o","d",
            "l","e","s","l","o","v","e","/","j","a","b","l","e","-","p","y">>]] >>

post_blockchain_in_go_1 ==
  [nlines |-> 181,
   marked |-> <<
     (* 1: --- *)
     [no |-> 1, text |->
          <<"-","-","-">>],
     (* 2: title: 'Building blockchain from scratch in Go. Part 1: Basic Prototype' *)
     [no |-> 2, text |->
          <<"t","i","t","l","e",":"," ","'","B","u","i","l","d","i","n","g"," ","b","l","o","c","k","c",
            "h","a","i","n"," ","f","r","o","m"," ","s","c","r","a","t","c","h"," ","i","n"," ","G","o",
            "."," ","P","a","r","t"," ","1",":"," ","B","a","s","i","c"," ","P","r","o","t","o","t","y",
            "p","e","'">>],
     (* 3: date: '2022-08-30' *)
     [no |-> 3, text |->
          <<"d","a","t","e",":"," ","'","2","0","2","2","-","0","8","-","3","0","'">>],
     (* 4: tags: ['blockchain', 'code', 'go'] *)
     [no |-> 4, text |->
          <<"t","a","g","s",":"," ","[","'","b","l","o","c","k","c","h","a","i","n","'",","," ","'","c",
            "o","d","e","'",","," ","'","g","o","'","]">>],
     (* 5: draft: false *)
     [no |-> 5, text |->
          <<"d","r","a","f","t",":"," ","f","a","l","s","e">>],
     (* 6: summary: In this series of articles we'll build a simplified cryptocurrency that's bas... *)
     [no |-> 6, text |->
          <<"s","u","m","m","a","r","y",":"," ","I","n"," ","t","h","i","s"," ","s","e","r","i","e","s",
            " ","o","f"," ","a","r","t","i","c","l","e","s"," ","w","e","'","l","l"," ","b","u","i","l",
            "d"," ","a"," ","s","i","m","p","l","i","f","i","e","d"," ","c","r","y","p","t","o","c","u",
            "r","r","e","n","c","y"," ","t","h","a","t","'","s"," ","b","a","s","e","d"," ","o","n"," ",
            "a"," ","s","i","m","p","l","e"," ","b","l","o","c","k","c","h","a","i","n"," ","i","m","p",
            "l","e","m","e","n","t","a","t","i","o","n",".">>],
     (* 7: authors: ['eddieho', 'sparrowhawk'] *)
     [no |-> 7, text |->
          <<"a","u","t","h","o","r","s",":"," ","[","'","e","d","d","i","e","h","o","'",","," ","'","s",
            "p","a","r","r","o","w","h","a","w","k","'","]">>],
     (* 8: --- *)
     [no |-> 8, text |->
          <<"-","-","-">>] >>]

\* A post whose header lost its draft line (line 5 of 8).
post_part_000_noDraft ==
  [nlines |-> 180,
   marked |-> [k \in 1..7 |->
      IF k < 5 THEN post_blockchain_in_go_1.marked[k]
      ELSE [no |-> k, text |-> post_blockchain_in_go_1.marked[k + 1].text]]]

post_part_000 ==
  [nlines |-> 112,
   marked |-> <<
     (* 1: --- *)
     [no |-> 1, text |->
          <<"-","-","-">>],
     (* 2: title: 'Recaps of Machine Learning: Linear Regression' *)
     [no |-> 2, text |->
          <<"t","i","t","l","e",":"," ","'","R","e","c","a","p","s"," ","o","f"," ","M","a","c","h","i",
            "n","e"," ","L","e","a","r","n","i","n","g",":"," ","L","i","n","e","a","r"," ","R","e","g",
            "r","e","s","s","i","o","n","'">>],
     (* 3: date: '2023-07-15' *)
     [no |-> 3, text |->
          <<"d","a","t","e",":"," ","'","2","0","2","3","-","0","7","-","1","5","'">>],
     (* 4: tags: ['machine learning', 'data science', 'notes', 'math'] *)
     [no |-> 4, text |->
          <<"t","a","g","s",":"," ","[","'","m","a","c","h","i","n","e"," ","l","e","a","r","n","i","n",
            "g","'",","," ","'","d","a","t","a"," ","s","c","i","e","n","c","e","'",","," ","'","n","o",
            "t","e","s","'",","," ","'","m","a","t","h","'","]">>],
     (* 5: lastmod: '2023-07-15' *)
     [no |-> 5, text |->
          <<"l","a","s","t","m","o","d",":"," ","'","2","0","2","3","-","0","7","-","1","5","'">>],
     (* 6: draft: false *)
     [no |-> 6, text |->
          <<"d","r","a","f","t",":"," ","f","a","l","s","e">>],
     (* 7: summary: Exploring linear regression and regularization techniques, this blog recaps t... *)
     [no |-> 7, text |->
          <<"s","u","m","m","a","r","y",":"," ","E","x","p","l","o","r","i","n","g"," ","l","i","n","e",
            "a","r"," ","r","e","g","r","e","s","s","i","o","n"," ","a","n","d"," ","r","e","g","u","l",
            "a","r","i","z","a","t","i","o","n"," ","t","e","c","h","n","i","q","u","e","s",","," ","t",
            "h","i","s"," ","b","l","o","g"," ","r","e","c","a","p","s"," ","t","h","e"," ","f","u","n",
            "d","a","m","e","n","t","a","l"," ","u","n","d","e","r","s","t","a","n","d","i","n","g"," ",
            "o","f"," ","l","i","n","e","a","r"," ","r","e","g","r","e","s","s","i","o","n",".">>],
     (* 8: authors: ['eddieho', 'chatgpt'] *)
     [no |-> 8, text |->
          <<"a","u","t","h","o","r","s",":"," ","[","'","e","d","d","i","e","h","o","'",","," ","'","c",
            "h","a","t","g","p","t","'","]">>],
     (* 9: --- *)
     [no |-> 9, text |->
          <<"-","-","-">>] >>]

\* A post that names a tag twice: tags: ['go', 'go']
post_part_4_dupTag ==
  [post_blockchain_in_go_1 EXCEPT !.marked[4].text =
     <<"t","a","g","s",":"," ","[","'","g","o","'",","," ","'","g","o","'","]">>]

post_part_4 ==
  [nlines |-> 533,
   marked |-> <<
     (* 1: --- *)
     [no |-> 1, text |->
          <<"-","-","-">>],
     (* 2: title: 'Building blockchain in Go. Part 4: Transactions 1' *)
     [no |-> 2, text |->
          <<"t","i","t","l","e",":"," ","'","B","u","i","l","d","i","n","g"," ","b","l","o","c","k","c",
            "h","a","i","n"," ","i","n"," ","G","o","."," ","P","a","r","t"," ","4",":"," ","T","r","a",
            "n","s","a","c","t","i","o","n","s"," ","1","'">>],
     (* 3: date: '2022-09-04' *)
     [no |-> 3, text |->
          <<"d","a","t","e",":"," ","'","2","0","2","2","-","0","9","-","0","4","'">>],
     (* 4: tags: ['blockchain', 'code', 'go'] *)
     [no |-> 4, text |->
          <<"t","a","g","s",":"," ","[","'","b","l","o","c","k","c","h","a","i","n","'",","," ","'","c",
            "o","d","e","'",","," ","'","g","o","'","]">>],
     (* 5: lastmod: '2022-09-04' *)
     [no |-> 5, text |->
          <<"l","a","s","t","m","o","d",":"," ","'","2","0","2","2","-","0","9","-","0","4","'">>],
     (* 6: draft: false *)
     [no |-> 6, text |->
          <<"d","r","a","f","t",":"," ","f","a","l","s","e">>],
     (* 7: summary: In this series of articles we\u2019ll build a simplified cryptocurrency that\... *)
     [no |-> 7, text |->
          <<"s","u","m","m","a","r","y",":"," ","I","n"," ","t","h","i","s"," ","s","e","r","i","e","s",
            " ","o","f"," ","a","r","t","i","c","l","e","s"," ","w","e","U+2019","l","l"," ","b","u",
            "i","l","d"," ","a"," ","s","i","m","p","l","i","f","i","e","d"," ","c","r","y","p","t","o",
            "c","u","r","r","e","n","c","y"," ","t","h","a","t","U+2019","s"," ","b","a","s","e","d",
            " ","o","n"," ","a"," ","s","i","m","p","l","e"," ","b","l","o","c","k","c","h","a","i","n",
            " ","i","m","p","l","e","m","e","n","t","a","t","i","o","n",".">>],
     (* 8: authors: ['eddieho'] *)
     [no |-> 8, text |->
          <<"a","u","t","h","o","r","s",":"," ","[","'","e","d","d","i","e","h","o","'","]">>],
     (* 9: --- *)
     [no |-> 9, text |->
          <<"-","-","-">>] >>]

\* A post dated the 31st of September: date: '2022-09-31'
post_blockchain_part_6_badDate ==
  [post_part_4 EXCEPT !.marked[3].text =
     <<"d","a","t","e",":"," ","'","2","0","2","2","-","0","9","-","3","1","'">>]

post_blockchain_part_6 ==
  [nlines |-> 1001,
   marked |-> <<
     (* 1: --- *)
     [no |-> 1, text |->
          <<"-","-","-">>],
     (* 2: title: 'Building blockchain in Go. Part 6: Transactions 2' *)
     [no |-> 2, text |->
          <<"t","i","t","l","e",":"," ","'","B","u","i","l","d","i","n","g"," ","b","l","o","c","k","c",
            "h","a","i","n"," ","i","n"," ","G","o","."," ","P","a","r","t"," ","6",":"," ","T","r","a",
            "n","s","a","c","t","i","o","n","s"," ","2","'">>],
     (* 3: date: '2022-09-16' *)
     [no |-> 3, text |->
          <<"d","a","t","e",":"," ","'","2","0","2","2","-","0","9","-","1","6","'">>],
     (* 4: tags: ['blockchain', 'code', 'go'] *)
     [no |-> 4, text |->
          <<"t","a","g","s",":"," ","[","'","b","l","o","c","k","c","h","a","i","n","'",","," ","'","c",
            "o","d","e","'",","," ","'","g","o","'","]">>],
     (* 5: lastmod: '2022-09-16' *)
     [no |-> 5, text |->
          <<"l","a","s","t","m","o","d",":"," ","'","2","0","2","2","-","0","9","-","1","6","'">>],
     (* 6: draft: false *)
     [no |-> 6, text |->
          <<"d","r","a","f","t",":"," ","f","a","l","s","e">>],
     (* 7: summary: In this series of articles we\u2019ll build a simplified cryptocurrency that\... *)
     [no |-> 7, text |->
          <<"s","u","m","m","a","r","y",":"," ","I","n"," ","t","h","i","s"," ","s","e","r","i","e","s",
            " ","o","f"," ","a","r","t","i","c","l","e","s"," ","w","e","U+2019","l","l"," ","b","u",
            "i","l","d"," ","a"," ","s","i","m","p","l","i","f","i","e","d"," ","c","r","y","p","t","o",
            "c","u","r","r","e","n","c","y"," ","t","h","a","t","U+2019","s"," ","b","a","s","e","d",
            " ","o","n"," ","a"," ","s","i","m","p","l","e"," ","b","l","o","c","k","c","h","a","i","n",
            " ","i","m","p","l","e","m","e","n","t","a","t","i","o","n",".">>],
     (* 8: authors: ['eddieho'] *)
     [no |-> 8, text |->
          <<"a","u","t","h","o","r","s",":"," ","[","'","e","d","d","i","e","h","o","'","]">>],
     (* 9: --- *)
     [no |-> 9, text |->
          <<"-","-","-">>],
     (* 495: --- *)
     [no |-> 495, text |->
          <<"-","-","-">>],
     (* 496: title: 'Building blockchain in Go. Part 5: Addresses' *)
     [no |-> 496, text |->
          <<"t","i","t","l","e",":"," ","'","B","u","i","l","d","i","n","g"," ","b","l","o","c","k","c",
            "h","a","i","n"," ","i","n"," ","G","o","."," ","P","a","r","t"," ","5",":"," ","A","d","d",
            "r","e","s","s","e","s","'">>],
     (* 497: date: '2022-09-07' *)
     [no |-> 497, text |->
          <<"d","a","t","e",":"," ","'","2","0","2","2","-","0","9","-","0","7","'">>],
     (* 498: tags: ['blockchain', 'code', 'go'] *)
     [no |-> 498, text |->
          <<"t","a","g","s",":"," ","[","'","b","l","o","c","k","c","h","a","i","n","'",","," ","'","c",
            "o","d","e","'",","," ","'","g","o","'","]">>],
     (* 499: lastmod: '2022-09-08' *)
     [no |-> 499, text |->
          <<"l","a","s","t","m","o","d",":"," ","'","2","0","2","2","-","0","9","-","0","8","'">>],
     (* 500: draft: false *)
     [no |-> 500, text |->
          <<"d","r","a","f","t",":"," ","f","a","l","s","e">>],
     (* 501: summary: In this series of articles we\u2019ll build a simplified cryptocurrency that\... *)
     [no |-> 501, text |->
          <<"s","u","m","m","a","r","y",":"," ","I","n"," ","t","h","i","s"," ","s","e","r","i","e","s",
            " ","o","f"," ","a","r","t","i","c","l","e","s"," ","w","e","U+2019","l","l"," ","b","u",
            "i","l","d"," ","a"," ","s","i","m","p","l","i","f","i","e","d"," ","c","r","y","p","t","o",
            "c","u","r","r","e","n","c","y"," ","t","h","a","t","U+2019","s"," ","b","a","s","e","d",
            " ","o","n"," ","a"," ","s","i","m","p","l","e"," ","b","l","o","c","k","c","h","a","i","n",
            " ","i","m","p","l","e","m","e","n","t","a","t","i","o","n",".">>],
     (* 502: authors: ['eddieho'] *)
     [no |-> 502, text |->
          <<"a","u","t","h","o","r","s",":"," ","[","'","e","d","d","i","e","h","o","'","]">>],
     (* 503: --- *)
     [no |-> 503, text |->
          <<"-","-","-">>] >>]

post_part_6 ==
  [nlines |-> 787,
   marked |-> <<
     (* 1: --- *)
     [no |-> 1, text |->
          <<"-","-","-">>],
     (* 2: title: 'Building blockchain in Go. Part 6: Transactions 2' *)
     [no |-> 2, text |->
          <<"t","i","t","l","e",":"," ","'","B","u","i","l","d","i","n","g"," ","b","l","o","c","k","c",
            "h","a","i","n"," ","i","n"," ","G","o","."," ","P","a","r","t"," ","6",":"," ","T","r","a",
            "n","s","a","c","t","i","o","n","s"," ","2","'">>],
     (* 3: date: '2022-09-16' *)
     [no |-> 3, text |->
          <<"d","a","t","e",":"," ","'","2","0","2","2","-","0","9","-","1","6","'">>],
     (* 4: tags: ['blockchain', 'code', 'go'] *)
     [no |-> 4, text |->
          <<"t","a","g","s",":"," ","[","'","b","l","o","c","k","c","h","a","i","n","'",","," ","'","c",
            "o","d","e","'",","," ","'","g","o","'","]">>],
     (* 5: lastmod: '2022-09-16' *)
     [no |-> 5, text |->
          <<"l","a","s","t","m","o","d",":"," ","'","2","0","2","2","-","0","9","-","1","6","'">>],
     (* 6: draft: true *)
     [no |-> 6, text |->
          <<"d","r","a","f","t",":"," ","t","r","u","e">>],
     (* 7: summary: In this series of articles we\u2019ll build a simplified cryptocurrency that\... *)
     [no |-> 7, text |->
          <<"s","u","m","m","a","r","y",":"," ","I","n"," ","t","h","i","s"," ","s","e","r","i","e","s",
            " ","o","f"," ","a","r","t","i","c","l","e","s"," ","w","e","U+2019","l","l"," ","b","u",
            "i","l","d"," ","a"," ","s","i","m","p","l","i","f","i","e","d"," ","c","r","y","p","t","o",
            "c","u","r","r","e","n","c","y"," ","t","h","a","t","U+2019","s"," ","b","a","s","e","d",
            " ","o","n"," ","a"," ","s","i","m","p","l","e"," ","b","l","o","c","k","c","h","a","i","n",
            " ","i","m","p","l","e","m","e","n","t","a","t","i","o","n",".">>],
     (* 8: authors: ['eddieho'] *)
     [no |-> 8, text |->
          <<"a","u","t","h","o","r","s",":"," ","[","'","e","d","d","i","e","h","o","'","]">>],
     (* 9: --- *)
     [no |-> 9, text |->
          <<"-","-","-">>],
     (* 332: --- *)
     [no |-> 332, text |->
          <<"-","-","-">>],
     (* 333: title: 'Building blockchain in Go. Part 3: Persistence and CLI' *)
     [no |-> 333, text |->
          <<"t","i","t","l","e",":"," ","'","B","u","i","l","d","i","n","g"," ","b","l","o","c","k","c",
            "h","a","i","n"," ","i","n"," ","G","o","."," ","P","a","r","t"," ","3",":"," ","P","e","r",
            "s","i","s","t","e","n","c","e"," ","a","n","d"," ","C","L","I","'">>],
     (* 334: date: '2022-09-02' *)
     [no |-> 334, text |->
          <<"d","a","t","e",":"," ","'","2","0","2","2","-","0","9","-","0","2","'">>],
     (* 335: tags: ['blockchain', 'code', 'go'] *)
     [no |-> 335, text |->
          <<"t","a","g","s",":"," ","[","'","b","l","o","c","k","c","h","a","i","n","'",","," ","'","c",
            "o","d","e","'",","," ","'","g","o","'","]">>],
     (* 336: draft: false *)
     [no |-> 336, text |->
          <<"d","r","a","f","t",":"," ","f","a","l","s","e">>],
     (* 337: summary: In this series of articles we'll build a simplified cryptocurrency that's bas... *)
     [no |-> 337, text |->
          <<"s","u","m","m","a","r","y",":"," ","I","n"," ","t","h","i","s"," ","s","e","r","i","e","s",
            " ","o","f"," ","a","r","t","i","c","l","e","s"," ","w","e","'","l","l"," ","b","u","i","l",
            "d"," ","a"," ","s","i","m","p","l","i","f","i","e","d"," ","c","r","y","p","t","o","c","u",
            "r","r","e","n","c","y"," ","t","h","a","t","'","s"," ","b","a","s","e","d"," ","o","n"," ",
            "a"," ","s","i","m","p","l","e"," ","b","l","o","c","k","c","h","a","i","n"," ","i","m","p",
            "l","e","m","e","n","t","a","t","i","o","n",".">>],
     (* 338: authors: ['eddieho'] *)
     [no |-> 338, text |->
          <<"a","u","t","h","o","r","s",":"," ","[","'","e","d","d","i","e","h","o","'","]">>],
     (* 339: --- *)
     [no |-> 339, text |->
          <<"-","-","-">>] >>]

(***************************************************************************)
(* Of a post only the lines that matter to its header are kept, each with  *)
(* its line number: every line of the block that opens the file, every     *)
(* later line that is '---', and every later line that starts with one of  *)
(* the header keys (title, date, tags, lastmod, draft, summary, authors)   *)
(* and a colon.  All other lines are body text.                            *)
(***************************************************************************)

ProjectModules == {"data/projectsData.js", "unnamed/part_001", "unnamed/part_002"}

\* Lists in which the first record comes once more, at the end.
ProjectsLiteralRepeated(m) == Append(projectsData_js, projectsData_js[1])

ProjectsLiteral(m) ==
  CASE m = "data/projectsData.js" -> projectsData_js
    [] m = "unnamed/part_001" -> projectsData_part_001
    [] m = "unnamed/part_002" -> projectsData_part_002

PostFiles ==
  {"data/blog/blockchain-in-go-1.md", "unnamed/part_000",
   "data/blog/blockchain-in-go/part-4.md",
   "data/blog/blockchain/blockchain-in-go/part-6.md",
   "data/blog/blockchain-in-go/part-6.md"}

PostFile(p) ==
  CASE p = "data/blog/blockchain-in-go-1.md" -> post_blockchain_in_go_1
    [] p = "unnamed/part_000" -> post_part_000
    [] p = "data/blog/blockchain-in-go/part-4.md" -> post_part_4
    [] p = "data/blog/blockchain/blockchain-in-go/part-6.md" -> post_blockchain_part_6
    [] p = "data/blog/blockchain-in-go/part-6.md" -> post_part_6

(***************************************************************************)
(* Text helpers.                                                           *)
(***************************************************************************)
Lower ==
  {"a","b","c","d","e","f","g","h","i","j","k","l","m",
   "n","o","p","q","r","s","t","u","v","w","x","y","z"}
Upper ==
  {"A","B","C","D","E","F","G","H","I","J","K","L","M",
   "N","O","P","Q","R","S","T","U","V","W","X","Y","Z"}
Digits == {"0","1","2","3","4","5","6","7","8","9"}
Letters == Lower \cup Upper
HexDigits == Digits \cup {"a","b","c","d","e","f","A","B","C","D","E","F"}

DigitVal(c) ==
  CASE c = "0" -> 0 [] c = "1" -> 1 [] c = "2" -> 2 [] c = "3" -> 3 [] c = "4" -> 4
    [] c = "5" -> 5 [] c = "6" -> 6 [] c = "7" -> 7 [] c = "8" -> 8 [] c = "9" -> 9

Take(s, n) == SubSeq(s, 1, n)
Drop(s, n) == SubSeq(s, n + 1, Len(s))
StartsWith(s, p) == Len(s) >= Len(p) /\ SubSeq(s, 1, Len(p)) = p
Contains(s, p) == \E i \in 1..(Len(s) - Len(p) + 1) : SubSeq(s, i, i + Len(p) - 1) = p
AllIn(s, S) == \A i \in 1..Len(s) : s[i] \in S

\* The first position of a character of S in s at or after i, or 0.
RECURSIVE IndexIn(_, _, _)
IndexIn(s, S, i) ==
  IF i > Len(s) THEN 0 ELSE IF s[i] \in S THEN i ELSE IndexIn(s, S, i + 1)

RECURSIVE TrimLeft(_)
TrimLeft(s) == IF s # <<>> /\ Head(s) = " " THEN TrimLeft(Tail(s)) ELSE s

RECURSIVE TrimRight(_)
TrimRight(s) ==
  IF s # <<>> /\ s[Len(s)] = " " THEN TrimRight(Take(s, Len(s) - 1)) ELSE s

Trim(s) == TrimLeft(TrimRight(s))

(***************************************************************************)
(* The metadata header, read the way the rendering layer reads it: the     *)
(* block between a '---' first line and the next '---' line, one           *)
(* "key: value" mapping entry per line, a value being a single-quoted      *)
(* scalar, a flow sequence [a, b], true / false, or a plain scalar.        *)
(***************************************************************************)
Delimiter == <<"-","-","-">>

IsDelimiter(text) == TrimRight(text) = Delimiter

\* The inside of a single-quoted scalar: a quote occurs only doubled.
RECURSIVE QuotedOk(_, _)
QuotedOk(s, i) ==
  IF i > Len(s) THEN TRUE
  ELSE IF s[i] = "'"
       THEN i < Len(s) /\ s[i + 1] = "'" /\ QuotedOk(s, i + 2)
       ELSE QuotedOk(s, i + 1)

RECURSIVE Unquote(_, _)
Unquote(s, i) ==
  IF i > Len(s) THEN <<>>
  ELSE IF s[i] = "'" THEN <<"'">> \o Unquote(s, i + 2)
       ELSE <<s[i]>> \o Unquote(s, i + 1)

Invalid == [kind |-> "invalid"]

PlainIndicators == {"[", "]", "{", "}", ",", "'", "\"", "&", "*", "!", "|", ">", "%", "@", "U+0060", "#"}

IsTimestamp(s) ==
  /\ Len(s) = 10
  /\ s[5] = "-" /\ s[8] = "-"
  /\ \A i \in {1, 2, 3, 4, 6, 7, 9, 10} : s[i] \in Digits

\* A scalar: quoted, true / false, a timestamp, a number, or a plain string.
ParseScalar(v) ==
  IF v = <<>> THEN [kind |-> "null"]
  ELSE IF Head(v) = "'"
  THEN IF Len(v) >= 2 /\ v[Len(v)] = "'" /\ QuotedOk(SubSeq(v, 2, Len(v) - 1), 1)
       THEN [kind |-> "string", val |-> Unquote(SubSeq(v, 2, Len(v) - 1), 1)]
       ELSE Invalid
  ELSE IF v = <<"t","r","u","e">> THEN [kind |-> "bool", val |-> TRUE]
  ELSE IF v = <<"f","a","l","s","e">> THEN [kind |-> "bool", val |-> FALSE]
  ELSE IF Head(v) \in PlainIndicators \/ Contains(v, <<":"," ">>)
          \/ Contains(v, <<" ","#">>) \/ v[Len(v)] = ":"
  THEN Invalid
  ELSE IF IsTimestamp(v) THEN [kind |-> "timestamp", val |-> v]
  ELSE IF AllIn(v, Digits) THEN [kind |-> "number", val |-> v]
  ELSE [kind |-> "string", val |-> v]

\* The items of a flow sequence: split at the commas outside quotes.
RECURSIVE SplitFlow(_, _, _, _)
SplitFlow(s, i, inq, cur) ==
  IF i > Len(s) THEN <<cur>>
  ELSE IF s[i] = "'" THEN SplitFlow(s, i + 1, ~inq, Append(cur, s[i]))
  ELSE IF s[i] = "," /\ ~inq THEN <<cur>> \o SplitFlow(s, i + 1, FALSE, <<>>)
  ELSE SplitFlow(s, i + 1, inq, Append(cur, s[i]))

ParseFlow(v) ==
  IF v[Len(v)] # "]" THEN Invalid
  ELSE LET inner == Trim(SubSeq(v, 2, Len(v) - 1))
           parts == IF inner = <<>> THEN <<>> ELSE SplitFlow(inner, 1, FALSE, <<>>)
           items == [k \in 1..Len(parts) |-> ParseScalar(Trim(parts[k]))]
       IN IF \E k \in 1..Len(items) : items[k].kind \in {"invalid", "null"}
          THEN Invalid
          ELSE [kind |-> "list", items |-> items]

ParseValue(v) ==
  IF v # <<>> /\ Head(v) = "[" THEN ParseFlow(v) ELSE ParseScalar(v)

KeyChars == Letters \cup Digits \cup {"_", "-"}

\* One line of the header: [key, val], or Invalid.
ParseLine(text) ==
  LET c == IndexIn(text, {":"}, 1)
  IN IF c <= 1 \/ ~AllIn(Take(text, c - 1), KeyChars)
        \/ (c < Len(text) /\ text[c + 1] # " ")
     THEN Invalid
     ELSE LET val == ParseValue(Trim(Drop(text, c)))
          IN IF val.kind = "invalid" THEN Invalid
             ELSE [kind |-> "entry", key |-> Take(text, c - 1), val |-> val]

\* The index in marked of the first delimiter after index i, or 0.
RECURSIVE NextDelimiter(_, _)
NextDelimiter(marked, i) ==
  IF i >= Len(marked) THEN 0
  ELSE IF IsDelimiter(marked[i + 1].text) THEN i + 1
       ELSE NextDelimiter(marked, i + 1)

NoHeader(file) == [set |-> TRUE, ok |-> FALSE, data |-> <<>>, content |-> file.marked]

\* The result of reading a post: the header's entries and the body's kept lines.
ParseFrontMatter(file) ==
  LET marked == file.marked
  IN IF marked = <<>> \/ marked[1].no # 1 \/ ~IsDelimiter(marked[1].text)
     THEN NoHeader(file)
     ELSE LET close == NextDelimiter(marked, 1)
          IN IF close = 0 \/ marked[close].no # close
             THEN NoHeader(file)
             ELSE LET entries == [k \in 1..(close - 2) |-> ParseLine(marked[k + 1].text)]
                  IN IF \/ \E k \in 1..Len(entries) : entries[k].kind = "invalid"
                        \/ \E j, k \in 1..Len(entries) :
                              j # k /\ entries[j].key = entries[k].key
                     THEN NoHeader(file)
                     ELSE [set |-> TRUE, ok |-> TRUE, data |-> entries,
                           content |-> Drop(marked, close)]

(***************************************************************************)
(* The content files as a state machine: a module is evaluated once and    *)
(* its list exported; the UI layer reads a record of an exported list; the *)
(* rendering layer reads a post.                                           *)
(***************************************************************************)
InitData ==
  /\ exports = [m \in ProjectModules |-> Unset]
  /\ card = Unset
  /\ fm = [p \in PostFiles |-> Unset]

\* The variables of a specification that is not running.
IdleData == exports = <<>> /\ card = Unset /\ fm = <<>>
IdleP4 == bc4 = <<>> /\ out4 = "" /\ db4 = <<>> /\ run4 = <<>>
IdleP6 == bc6 = <<>> /\ utxo = <<>> /\ out6 = ""
IdleMerkle == mt = [pc |-> "idle"]
IdleP1 == bc1 = <<>>
IdleP5 == p5 = <<>>
IdleP3 == db3 = <<>> /\ tip3 = Unset /\ it3 = <<>> /\ log3 = <<>> /\ cli3 = <<>>

InitDataSpec == InitData /\ IdleP4 /\ IdleP6 /\ IdleMerkle /\ IdleP1 /\ IdleP3 /\ IdleP5

\* A module that pushes its first record to the end each time it is evaluated.
EvaluateRotating(m) ==
  /\ exports' = [exports EXCEPT ![m] =
        IF exports[m].set
        THEN [set |-> TRUE, list |-> Append(Tail(exports[m].list), Head(exports[m].list))]
        ELSE [set |-> TRUE, list |-> ProjectsLiteral(m)]]
  /\ UNCHANGED <<card, fm>>

\* Evaluating a module (once): const projectsData = [...]; export default projectsData.
Evaluate(m) ==
  /\ ~exports[m].set
  /\ exports' = [exports EXCEPT ![m] = [set |-> TRUE, list |-> ProjectsLiteral(m)]]
  /\ UNCHANGED <<card, fm>>

\* The UI layer takes record i of the list module m exports.
ShowProject(m, i) ==
  /\ exports[m].set
  /\ i \in 1..Len(exports[m].list)
  /\ card' = [set |-> TRUE, rec |-> exports[m].list[i]]
  /\ UNCHANGED <<exports, fm>>

\* The rendering layer reads post p.
ReadPost(p) ==
  /\ ~fm[p].set
  /\ fm' = [fm EXCEPT ![p] = ParseFrontMatter(PostFile(p))]
  /\ UNCHANGED <<exports, card>>

NextData ==
  \/ \E m \in ProjectModules : Evaluate(m) /\ UNCHANGED <<p4Vars, p6Vars, merkleVars, p1Vars, p3Vars, p5Vars>>
  \/ \E m \in ProjectModules : \E i \in 1..Len(ProjectsLiteral(m)) :
        ShowProject(m, i) /\ UNCHANGED <<p4Vars, p6Vars, merkleVars, p1Vars, p3Vars, p5Vars>>
  \/ \E p \in PostFiles : ReadPost(p) /\ UNCHANGED <<p4Vars, p6Vars, merkleVars, p1Vars, p3Vars, p5Vars>>

SpecData == InitDataSpec /\ [][NextData]_vars

(***************************************************************************)
(* What the claims about the content files speak of.                       *)
(***************************************************************************)
SchemeChars == Letters \cup Digits \cup {"+", "-", "."}
Unreserved == Letters \cup Digits \cup {"-", ".", "_", "~"}
SubDelims == {"!", "$", "&", "'", "(", ")", "*", "+", ",", ";", "="}
PChars == Unreserved \cup SubDelims \cup {":", "@", "%"}

\* Every % is followed by two hexadecimal digits.
PctOk(s) ==
  \A i \in 1..Len(s) :
    s[i] = "%" => i + 2 <= Len(s) /\ s[i + 1] \in HexDigits /\ s[i + 2] \in HexDigits

HostOk(h) ==
  /\ h # <<>>
  /\ AllIn(h, Letters \cup Digits \cup {"-", "."})
  /\ Head(h) \notin {"-", "."}
  /\ h[Len(h)] \notin {"-", "."}
  /\ ~Contains(h, <<".", ".">>)

\* scheme "://" host [":" port] [path] ["?" query]
IsAbsoluteURL(s) ==
  LET c == IndexIn(s, {":"}, 1)
  IN /\ c > 1
     /\ s[1] \in Letters
     /\ AllIn(Take(s, c - 1), SchemeChars)
     /\ StartsWith(Drop(s, c), <<"/", "/">>)
     /\ LET rest == Drop(s, c + 2)
            e == IndexIn(rest, {"/", "?"}, 1)
            authority == IF e = 0 THEN rest ELSE Take(rest, e - 1)
            tail == IF e = 0 THEN <<>> ELSE Drop(rest, e - 1)
            p == IndexIn(authority, {":"}, 1)
            host == IF p = 0 THEN authority ELSE Take(authority, p - 1)
            port == IF p = 0 THEN <<"0">> ELSE Drop(authority, p)
            q == IndexIn(tail, {"?"}, 1)
            path == IF q = 0 THEN tail ELSE Take(tail, q - 1)
            query == IF q = 0 THEN <<>> ELSE Drop(tail, q)
        IN /\ HostOk(host)
           /\ port # <<>> /\ AllIn(port, Digits)
           /\ AllIn(path, PChars \cup {"/"})
           /\ AllIn(query, PChars \cup {"/", "?"})
           /\ PctOk(tail)

ExportedLists == {exports[m].list : m \in {x \in ProjectModules : exports[x].set}}

IsString(x) == DOMAIN x = {"t", "v"} /\ x.t = "string"

\* C1: in every exported projectsData list every record has a non-empty title
\* and an href that is a syntactically valid absolute URL.
C1_TitleAndUrl ==
  \A L \in ExportedLists : \A i \in 1..Len(L) :
    /\ "title" \in DOMAIN L[i] /\ IsString(L[i].title) /\ L[i].title.v # <<>>
    /\ "href" \in DOMAIN L[i] /\ IsString(L[i].href) /\ IsAbsoluteURL(L[i].href.v)

\* All three modules are evaluated, and the reader holds a record whose href has a query.
C1_Witness ==
  /\ \A m \in ProjectModules : exports[m].set
  /\ card.set /\ Contains(card.rec.href.v, <<"?">>)

\* C2: every record of every exported list has exactly the keys title,
\* description, imgSrc and href, each holding a string.
C2_FixedShape ==
  \A L \in ExportedLists : \A i \in 1..Len(L) :
    /\ DOMAIN L[i] = {"title", "description", "imgSrc", "href"}
    /\ \A k \in DOMAIN L[i] : IsString(L[i][k])

\* All three modules are evaluated and the reader holds the last record of the longest list.
C2_Witness ==
  /\ \A m \in ProjectModules : exports[m].set
  /\ card.set /\ card.rec = projectsData_part_002[Len(projectsData_part_002)]

Key(name) ==
  CASE name = "title" -> <<"t","i","t","l","e">>
    [] name = "date" -> <<"d","a","t","e">>
    [] name = "tags" -> <<"t","a","g","s">>
    [] name = "lastmod" -> <<"l","a","s","t","m","o","d">>
    [] name = "draft" -> <<"d","r","a","f","t">>
    [] name = "summary" -> <<"s","u","m","m","a","r","y">>
    [] name = "authors" -> <<"a","u","t","h","o","r","s">>

Has(data, name) == \E k \in 1..Len(data) : data[k].key = Key(name)
Field(data, name) == data[CHOOSE k \in 1..Len(data) : data[k].key = Key(name)].val
HasKind(data, name, kinds) == Has(data, name) /\ Field(data, name).kind \in kinds

IsStringList(v) ==
  v.kind = "list" /\ \A k \in 1..Len(v.items) : v.items[k].kind = "string"

ReadPosts == {p \in PostFiles : fm[p].set}

\* C3: every post starts with a '---' delimited header that parses to a record
\* holding title (string), date, tags (list of strings), draft (boolean),
\* summary (string) and authors (list of strings).
C3_HeaderWellFormed ==
  \A p \in ReadPosts :
    /\ fm[p].ok
    /\ HasKind(fm[p].data, "title", {"string"})
    /\ HasKind(fm[p].data, "date", {"string", "timestamp"})
    /\ Has(fm[p].data, "tags") /\ IsStringList(Field(fm[p].data, "tags"))
    /\ HasKind(fm[p].data, "draft", {"bool"})
    /\ HasKind(fm[p].data, "summary", {"string"})
    /\ Has(fm[p].data, "authors") /\ IsStringList(Field(fm[p].data, "authors"))

\* Every post has been read; one is a draft and one is not.
C3_Witness ==
  /\ ReadPosts = PostFiles
  /\ \E p, q \in PostFiles :
       /\ fm[p].ok /\ Has(fm[p].data, "draft") /\ Field(fm[p].data, "draft").val = TRUE
       /\ fm[q].ok /\ Has(fm[q].data, "draft") /\ Field(fm[q].data, "draft").val = FALSE

\* C5: the tags of every post are non-empty strings, none occurring twice.
C5_TagsAreSet ==
  \A p \in ReadPosts :
    /\ fm[p].ok /\ Has(fm[p].data, "tags")
    /\ LET tags == Field(fm[p].data, "tags")
       IN /\ IsStringList(tags)
          /\ \A k \in 1..Len(tags.items) : tags.items[k].val # <<>>
          /\ \A j, k \in 1..Len(tags.items) :
               j # k => tags.items[j].val # tags.items[k].val

\* Every post has been read, and one of them has four tags.
C5_Witness ==
  /\ ReadPosts = PostFiles
  /\ \E p \in PostFiles :
       fm[p].ok /\ Has(fm[p].data, "tags") /\ Len(Field(fm[p].data, "tags").items) = 4

Num2(s, i) == 10 * DigitVal(s[i]) + DigitVal(s[i + 1])
Year(s) == 100 * Num2(s, 1) + Num2(s, 3)

IsLeap(y) == (y % 4 = 0 /\ y % 100 # 0) \/ y % 400 = 0

DaysIn(y, m) ==
  IF m = 2 THEN (IF IsLeap(y) THEN 29 ELSE 28)
  ELSE IF m \in {4, 6, 9, 11} THEN 30 ELSE 31

\* YYYY-MM-DD naming a day of the calendar.
IsCalendarDate(s) ==
  /\ IsTimestamp(s)
  /\ Num2(s, 6) \in 1..12
  /\ Num2(s, 9) \in 1..DaysIn(Year(s), Num2(s, 6))

\* C6: date, and lastmod where present, is a string YYYY-MM-DD that denotes an
\* existing calendar date.
C6_DatesWellFormed ==
  \A p \in ReadPosts :
    /\ fm[p].ok
    /\ \A name \in {"date", "lastmod"} :
         (name = "date" \/ Has(fm[p].data, name)) =>
           /\ HasKind(fm[p].data, name, {"string"})
           /\ IsCalendarDate(Field(fm[p].data, name).val)

\* Every post has been read; one has a lastmod and one has none.
C6_Witness ==
  /\ ReadPosts = PostFiles
  /\ \E p, q \in PostFiles :
       fm[p].ok /\ Has(fm[p].data, "lastmod") /\ fm[q].ok /\ ~Has(fm[q].data, "lastmod")

\* C7: once a module is evaluated the list it exports is the literal of its
\* file, and no step adds, removes, reorders or changes a record of it.
C7_NoRuntimeMutation ==
  /\ [](\A m \in ProjectModules : exports[m].set => exports[m].list = ProjectsLiteral(m))
  /\ [][\A m \in ProjectModules : exports[m].set => exports'[m] = exports[m]]_vars

\* Every module is evaluated and the reader has taken a record.
C7_Witness ==
  /\ \A m \in ProjectModules : exports[m].set
  /\ card.set
  /\ \E p \in PostFiles : fm[p].set

\* The kept lines i..j of a body are one '---' delimited block of consecutive
\* lines that holds the header fields title, date, tags and draft.
IsHeaderBlock(content, i, j) ==
  /\ i < j
  /\ IsDelimiter(content[i].text) /\ IsDelimiter(content[j].text)
  /\ content[j].no - content[i].no = j - i
  /\ \A k \in (i + 1)..(j - 1) : ~IsDelimiter(content[k].text)
  /\ \A name \in {"title", "date", "tags", "draft"} :
       \E k \in (i + 1)..(j - 1) :
         LET e == ParseLine(content[k].text)
         IN e.kind = "entry" /\ e.key = Key(name)

HasHeaderBlock(content) ==
  \E i, j \in 1..Len(content) : IsHeaderBlock(content, i, j)

\* C8: each post holds exactly one metadata header, at its start, and no
\* second '---' delimited block with title / date / tags / draft after it.
C8_SingleHeader ==
  \A p \in ReadPosts : fm[p].ok /\ ~HasHeaderBlock(fm[p].content)

(***************************************************************************)
(* Part 4 (data/blog/blockchain-in-go/part-4.md): transactions.            *)
(*                                                                         *)
(* A transaction ID is the hash of the transaction (SetID); the hash is    *)
(* taken to be collision-free and is modelled by the hashed content.  A    *)
(* block's Hash is modelled by its height, PrevBlockHash 0 being the empty *)
(* hash of the genesis block.  Output indices are the code's, from 0.      *)
(***************************************************************************)
Addresses == {"Eddie", "Ivan"}

subsidy == 10

genesisData == "genesis"

MaxBlocks == 4
MaxAmount == 3

\* The amounts the send commands carry: small ones, and one coin more than a
\* single reward holds.
Amounts == (1..MaxAmount) \cup {subsidy + 1}

\* -amount is any int: those, none, and less than none.
AnyAmounts == Amounts \cup {0, -1}

\* All orders in which a map with the keys S may be ranged over.
Orders(S) ==
  {f \in [1..Cardinality(S) -> S] : \A i, j \in 1..Cardinality(S) : i # j => f[i] # f[j]}

RECURSIVE Flatten(_)
Flatten(ss) == IF ss = <<>> THEN <<>> ELSE Head(ss) \o Flatten(Tail(ss))

RECURSIVE SumValues(_)
SumValues(outs) == IF outs = <<>> THEN 0 ELSE Head(outs).Value + SumValues(Tail(outs))

EmptyTxid == [Vin |-> <<>>, Vout |-> <<>>]

\* Transaction.SetID: the hash of the transaction's inputs and outputs.
SetID(vin, vout) == [ID |-> [Vin |-> vin, Vout |-> vout], Vin |-> vin, Vout |-> vout]

\* The reward transaction: one input that references nothing, one output.
NewCoinbaseTX(to, data) ==
  SetID(<<[Txid |-> EmptyTxid, Vout |-> -1, ScriptSig |-> data]>>,
        <<[Value |-> subsidy, ScriptPubKey |-> to]>>)

IsCoinbase(tx) ==
  Len(tx.Vin) = 1 /\ tx.Vin[1].Txid = EmptyTxid /\ tx.Vin[1].Vout = -1

CanUnlockOutputWith(in, unlockingData) == in.ScriptSig = unlockingData

CanBeUnlockedWith(out, unlockingData) == out.ScriptPubKey = unlockingData

NewBlock(transactions, prevBlockHash) ==
  [Transactions |-> transactions, PrevBlockHash |-> prevBlockHash,
   Hash |-> prevBlockHash + 1]

NewGenesisBlock(coinbase) == NewBlock(<<coinbase>>, 0)

\* The transactions in the order the iterator meets them: from the tip back
\* to the genesis block, each block's transactions in their order.
IterTxs(bc) == Flatten([k \in 1..Len(bc) |-> bc[Len(bc) + 1 - k].Transactions])

\* The loop of FindUnspentTransactions from transaction k on; spent holds the
\* (transaction ID, output index) pairs gathered in spentTXOs so far.
RECURSIVE UnspentFrom(_, _, _, _)
UnspentFrom(txs, k, address, spent) ==
  IF k > Len(txs) THEN <<>>
  ELSE LET tx == txs[k]
           found == {i \in 1..Len(tx.Vout) :
                       /\ <<tx.ID, i - 1>> \notin spent
                       /\ CanBeUnlockedWith(tx.Vout[i], address)}
           gathered == IF IsCoinbase(tx) THEN {}
                       ELSE {<<tx.Vin[i].Txid, tx.Vin[i].Vout>> :
                               i \in {j \in 1..Len(tx.Vin) :
                                        CanUnlockOutputWith(tx.Vin[j], address)}}
       IN [i \in 1..Cardinality(found) |-> tx]
            \o UnspentFrom(txs, k + 1, address, spent \cup gathered)

\* Blockchain.FindUnspentTransactions: a transaction is appended once for
\* each of its outputs that is unlockable by address and not in spentTXOs.
FindUnspentTransactions(bc, address) == UnspentFrom(IterTxs(bc), 1, address, {})

\* Blockchain.FindUTXO: the outputs unlockable by address of those transactions.
FindUTXO4(bc, address) ==
  LET txs == FindUnspentTransactions(bc, address)
  IN Flatten([k \in 1..Len(txs) |->
       SelectSeq(txs[k].Vout, LAMBDA out : CanBeUnlockedWith(out, address))])

\* CLI.getBalance
getBalance(bc, address) == SumValues(FindUTXO4(bc, address))

\* The outputs the two loops of FindSpendableOutputs visit, in order.
Candidates(txs) ==
  Flatten([k \in 1..Len(txs) |->
    [i \in 1..Len(txs[k].Vout) |-> [txID |-> txs[k].ID, outIdx |-> i - 1,
                                    out |-> txs[k].Vout[i]]]])

\* The loops of FindSpendableOutputs from candidate k on.
RECURSIVE Accumulate(_, _, _, _, _, _)
Accumulate(cands, k, address, amount, accumulated, picked) ==
  IF k > Len(cands) THEN [acc |-> accumulated, picked |-> picked]
  ELSE IF CanBeUnlockedWith(cands[k].out, address) /\ accumulated < amount
       THEN LET acc2 == accumulated + cands[k].out.Value
                picked2 == Append(picked, <<cands[k].txID, cands[k].outIdx>>)
            IN IF acc2 >= amount THEN [acc |-> acc2, picked |-> picked2]
               ELSE Accumulate(cands, k + 1, address, amount, acc2, picked2)
       ELSE Accumulate(cands, k + 1, address, amount, accumulated, picked)

\* Blockchain.FindSpendableOutputs: the accumulated value and the outputs
\* picked, (transaction ID, output index) in the order they were appended.
FindSpendableOutputs(bc, address, amount) ==
  Accumulate(Candidates(FindUnspentTransactions(bc, address)), 1, address, amount, 0, <<>>)

PickedIDs(picked) == {picked[k][1] : k \in 1..Len(picked)}

\* The inputs NewUTXOTransaction builds when it ranges over the map
\* validOutputs in the order ord of its keys.
InputsOf(picked, ord, from) ==
  Flatten([k \in 1..Len(ord) |->
    LET mine == SelectSeq(picked, LAMBDA e : e[1] = ord[k])
    IN [i \in 1..Len(mine) |-> [Txid |-> ord[k], Vout |-> mine[i][2], ScriptSig |-> from]]])

\* Outputs without the change: what is left over goes to nobody.
OutputsOfNoChange(from, to, amount, acc) ==
  <<[Value |-> amount, ScriptPubKey |-> to]>>

\* The outputs NewUTXOTransaction builds: the payment and, if any, the change.
OutputsOf(from, to, amount, acc) ==
  <<[Value |-> amount, ScriptPubKey |-> to]>>
    \o (IF acc > amount THEN <<[Value |-> acc - amount, ScriptPubKey |-> from]>> ELSE <<>>)

\* NewUTXOTransaction, the funds being enough.
NewUTXOTransaction(from, to, amount, found, ord) ==
  SetID(InputsOf(found.picked, ord, from), OutputsOf(from, to, amount, found.acc))

\* Blockchain.MineBlock: a new block on the tip.
MineBlock(bc, transactions) == Append(bc, NewBlock(transactions, bc[Len(bc)].Hash))

InitP4 ==
  bc4 = <<>> /\ out4 = "" /\ db4 = <<>> /\ run4 = <<>> /\ IdleData /\ IdleP6 /\ IdleMerkle /\ IdleP1 /\ IdleP3 /\ IdleP5

\* createblockchain -address a
CreateBlockchain(address) ==
  IF bc4 # <<>>
  THEN out4' = "Blockchain already exists." /\ UNCHANGED bc4
  ELSE /\ bc4' = <<NewGenesisBlock(NewCoinbaseTX(address, genesisData))>>
       /\ out4' = "Done!"

\* send -from a -to b -amount n
send(from, to, amount) ==
  /\ bc4 # <<>>
  /\ Len(bc4) < MaxBlocks
  /\ LET found == FindSpendableOutputs(bc4, from, amount)
     IN IF found.acc < amount
        THEN out4' = "ERROR: Not enough funds" /\ UNCHANGED bc4
        ELSE \E ord \in Orders(PickedIDs(found.picked)) :
               /\ bc4' = MineBlock(bc4, <<NewUTXOTransaction(from, to, amount, found, ord)>>)
               /\ out4' = "Success!"

NextP4 ==
  \/ \E a \in Addresses : CreateBlockchain(a) /\ UNCHANGED <<db4, run4, dataVars, p6Vars, merkleVars, p1Vars, p3Vars, p5Vars>>
  \/ \E from, to \in Addresses : \E amount \in AnyAmounts :
       send(from, to, amount) /\ UNCHANGED <<db4, run4, dataVars, p6Vars, merkleVars, p1Vars, p3Vars, p5Vars>>

SpecP4 == InitP4 /\ [][NextP4]_vars

\* Every input of the chain's transactions that references an output, as
\* (block, transaction, input) positions.
InputRefs(bc) ==
  UNION {UNION {{<<b, t, i>> : i \in 1..Len(bc[b].Transactions[t].Vin)} :
                  t \in {u \in 1..Len(bc[b].Transactions) :
                           ~IsCoinbase(bc[b].Transactions[u])}} :
           b \in 1..Len(bc)}

RefOf(bc, r) ==
  LET in == bc[r[1]].Transactions[r[2]].Vin[r[3]] IN <<in.Txid, in.Vout>>

NoDoubleSpend(bc) ==
  \A r, s \in InputRefs(bc) : r # s => RefOf(bc, r) # RefOf(bc, s)

\* C10: no transaction output (transaction ID, output index) is referenced by
\* more than one input over all transactions of the chain.
C10_NoDoubleSpend == NoDoubleSpend(bc4)

(***************************************************************************)
(* What the chain itself says about the outputs: positions (block,         *)
(* transaction, output) and the references the inputs hold.                *)
(***************************************************************************)
ChainOutputs(bc) ==
  UNION {UNION {{<<b, t, i>> : i \in 1..Len(bc[b].Transactions[t].Vout)} :
                  t \in 1..Len(bc[b].Transactions)} :
           b \in 1..Len(bc)}

OutputAt(bc, p) == bc[p[1]].Transactions[p[2]].Vout[p[3]]

OutRef(bc, p) == <<bc[p[1]].Transactions[p[2]].ID, p[3] - 1>>

SpentRefs(bc) == {RefOf(bc, r) : r \in InputRefs(bc)}

\* The outputs unlockable by address that no input of the chain references.
UnspentOf(bc, address) ==
  {p \in ChainOutputs(bc) :
     CanBeUnlockedWith(OutputAt(bc, p), address) /\ OutRef(bc, p) \notin SpentRefs(bc)}

RECURSIVE SumOver(_, _)
SumOver(bc, S) ==
  IF S = {} THEN 0
  ELSE LET p == CHOOSE x \in S : TRUE
       IN OutputAt(bc, p).Value + SumOver(bc, S \ {p})

\* C11: for every address, getBalance is the sum of the values of the outputs
\* locked by the address that no input of the chain references, each once.
C11_Balance ==
  bc4 # <<>> =>
    \A a \in Addresses : getBalance(bc4, a) = SumOver(bc4, UnspentOf(bc4, a))

\* The output a reference (transaction ID, output index) denotes in the chain.
ValueOfRef(bc, ref) ==
  LET tx == CHOOSE x \in {IterTxs(bc)[k] : k \in 1..Len(IterTxs(bc))} : x.ID = ref[1]
  IN tx.Vout[ref[2] + 1].Value

RECURSIVE SumRefs(_, _)
SumRefs(bc, refs) ==
  IF refs = <<>> THEN 0 ELSE ValueOfRef(bc, Head(refs)) + SumRefs(bc, Tail(refs))

\* C16: every (transaction ID, output index) FindSpendableOutputs returns for
\* an address denotes an output unlockable by the address and unspent, the
\* accumulated value is the sum of the returned outputs' values, and nothing
\* is picked once the accumulated value has reached the amount.
C16_SpendableOutputs ==
  bc4 # <<>> =>
    \A a \in Addresses : \A amount \in Amounts :
      LET found == FindSpendableOutputs(bc4, a, amount)
      IN /\ \A k \in 1..Len(found.picked) :
              found.picked[k] \in {OutRef(bc4, p) : p \in UnspentOf(bc4, a)}
         /\ found.acc = SumRefs(bc4, found.picked)
         /\ \A k \in 1..(Len(found.picked) - 1) :
              SumRefs(bc4, SubSeq(found.picked, 1, k)) < amount

\* The references the inputs of a transaction hold, in their order.
RefsOf(tx) == [k \in 1..Len(tx.Vin) |-> <<tx.Vin[k].Txid, tx.Vin[k].Vout>>]

\* A step in which send(from, to, amount) put a block on the chain.
Sent(from, to, amount) == send(from, to, amount) /\ Len(bc4') = Len(bc4) + 1

\* C17: the transaction a send builds has outputs that sum to the value of
\* the outputs its inputs reference, which is the accumulated value; it has
\* one output of the amount locked to the receiver, and a change output of
\* acc - amount locked to the sender exactly when acc > amount.
C17_ValueConservation ==
  [][\A from, to \in Addresses : \A amount \in Amounts :
       Sent(from, to, amount) =>
         LET tx == bc4'[Len(bc4')].Transactions[1]
             acc == FindSpendableOutputs(bc4, from, amount).acc
         IN /\ SumValues(tx.Vout) = SumRefs(bc4, RefsOf(tx))
            /\ SumRefs(bc4, RefsOf(tx)) = acc
            /\ tx.Vout[1] = [Value |-> amount, ScriptPubKey |-> to]
            /\ IF acc > amount
               THEN /\ Len(tx.Vout) = 2
                    /\ tx.Vout[2] = [Value |-> acc - amount, ScriptPubKey |-> from]
               ELSE Len(tx.Vout) = 1]_vars

\* The chain holds a transaction with change and one without, and one with
\* more than one input.
C17_Witness ==
  /\ \E k \in 1..Len(IterTxs(bc4)) :
       ~IsCoinbase(IterTxs(bc4)[k]) /\ Len(IterTxs(bc4)[k].Vout) = 2
  /\ \E k \in 1..Len(IterTxs(bc4)) :
       ~IsCoinbase(IterTxs(bc4)[k]) /\ Len(IterTxs(bc4)[k].Vout) = 1
  /\ \E k \in 1..Len(IterTxs(bc4)) : Len(IterTxs(bc4)[k].Vin) > 1

\* C18: a send whose sender's unspent outputs hold less than the amount ends
\* with 'ERROR: Not enough funds', adds no block and leaves every balance.
C18_InsufficientFunds ==
  [][\A from, to \in Addresses : \A amount \in Amounts :
       (/\ bc4 # <<>>
        /\ SumOver(bc4, UnspentOf(bc4, from)) < amount
        /\ send(from, to, amount)) =>
         /\ out4' = "ERROR: Not enough funds"
         /\ bc4' = bc4
         /\ \A a \in Addresses : getBalance(bc4', a) = getBalance(bc4, a)]_vars

(***************************************************************************)
(* Part 6 (data/blog/blockchain/blockchain-in-go/part-6.md): the reward,   *)
(* the UTXO set, and (its Part 5 section) keys and signatures.             *)
(*                                                                         *)
(* A wallet is named by its owner; its public key is [pub |-> owner] and   *)
(* the hash of a public key is modelled by the key it hashes.  An ECDSA    *)
(* signature is modelled by the key that signed and the data signed.       *)
(***************************************************************************)
Nil == [nil |-> TRUE]

PubKeyOf(w) == [pub |-> w]

HashPubKey(pubKey) == [pkh |-> pubKey]

\* TXOutput.Lock(address): the public key hash the address carries.
NewTXOutput(value, address) ==
  [Value |-> value, PubKeyHash |-> HashPubKey(PubKeyOf(address))]

IsLockedWithKey(out, pubKeyHash) == out.PubKeyHash = pubKeyHash

\* Transaction.Hash of a transaction whose inputs carry no signature yet.
Hash6(vin, vout) == [Vin |-> vin, Vout |-> vout]

\* The data a coinbase with data = "" carries: the same for every reward to
\* the same address (after two sends by the first address the transcript
\* shows its balance as 8, not 18).
RewardData(to) == [reward |-> to]

NewCoinbaseTX6(to, data) ==
  LET vin == <<[Txid |-> EmptyTxid, Vout |-> -1, Signature |-> Nil, PubKey |-> data]>>
      vout == <<NewTXOutput(subsidy, to)>>
  IN [ID |-> Hash6(vin, vout), Vin |-> vin, Vout |-> vout]

\* A bucket is a function from keys to values.
Put(b, k, v) == [x \in DOMAIN b \cup {k} |-> IF x = k THEN v ELSE b[x]]
Delete(b, k) == [x \in DOMAIN b \ {k} |-> b[x]]
Get(b, k) == IF k \in DOMAIN b THEN b[k] ELSE <<>>

\* The loop of Blockchain.FindUTXO from transaction k on: the unspent outputs
\* of every transaction, appended to the entry of its ID.
RECURSIVE FindUTXOFrom(_, _, _, _)
FindUTXOFrom(txs, k, spent, UTXO) ==
  IF k > Len(txs) THEN UTXO
  ELSE LET tx == txs[k]
           outs == SelectSeq([i \in 1..Len(tx.Vout) |-> [idx |-> i - 1, out |-> tx.Vout[i]]],
                             LAMBDA e : <<tx.ID, e.idx>> \notin spent)
           added == [i \in 1..Len(outs) |-> outs[i].out]
           gathered == IF IsCoinbase(tx) THEN {}
                       ELSE {<<tx.Vin[i].Txid, tx.Vin[i].Vout>> : i \in 1..Len(tx.Vin)}
       IN FindUTXOFrom(txs, k + 1, spent \cup gathered,
                       IF added = <<>> THEN UTXO ELSE Put(UTXO, tx.ID, Get(UTXO, tx.ID) \o added))

\* Blockchain.FindUTXO: transaction ID -> unspent outputs, by a scan of the chain.
FindUTXO(bc) == FindUTXOFrom(IterTxs(bc), 1, {}, <<>>)

\* UTXOSet.Reindex: the bucket is emptied and filled with FindUTXO.
Reindex(bc) == FindUTXO(bc)

\* The outputs the loops of UTXOSet.FindSpendableOutputs visit when the cursor
\* yields the keys in the order ord; outIdx is the position in the entry.
Candidates6(bucket, ord) ==
  Flatten([k \in 1..Len(ord) |->
    [i \in 1..Len(bucket[ord[k]]) |-> [txID |-> ord[k], outIdx |-> i - 1,
                                       out |-> bucket[ord[k]][i]]]])

RECURSIVE Accumulate6(_, _, _, _, _, _)
Accumulate6(cands, k, pubKeyHash, amount, accumulated, picked) ==
  IF k > Len(cands) THEN [acc |-> accumulated, picked |-> picked]
  ELSE IF IsLockedWithKey(cands[k].out, pubKeyHash) /\ accumulated < amount
       THEN Accumulate6(cands, k + 1, pubKeyHash, amount,
                        accumulated + cands[k].out.Value,
                        Append(picked, <<cands[k].txID, cands[k].outIdx>>))
       ELSE Accumulate6(cands, k + 1, pubKeyHash, amount, accumulated, picked)

\* UTXOSet.FindSpendableOutputs
FindSpendableOutputs6(bucket, ord, pubKeyHash, amount) ==
  Accumulate6(Candidates6(bucket, ord), 1, pubKeyHash, amount, 0, <<>>)

\* Blockchain.FindTransaction: the first transaction with this ID, from the tip.
FindTransaction(bc, ID) ==
  LET txs == IterTxs(bc)
      hits == {k \in 1..Len(txs) : txs[k].ID = ID}
  IN IF hits = {} THEN Nil
     ELSE txs[CHOOSE k \in hits : \A j \in hits : k <= j]

\* The hash of the trimmed copy in which input inID carries the PubKeyHash of
\* the output it references: the data signed and verified for that input.
DataToSign(bc, tx, inID) ==
  LET prevTx == FindTransaction(bc, tx.Vin[inID].Txid)
  IN [Vin |-> [k \in 1..Len(tx.Vin) |->
                 [Txid |-> tx.Vin[k].Txid, Vout |-> tx.Vin[k].Vout, Signature |-> Nil,
                  PubKey |-> IF k = inID THEN prevTx.Vout[tx.Vin[k].Vout + 1].PubKeyHash
                             ELSE Nil]],
      Vout |-> tx.Vout]

\* Every input references an output that a transaction of the chain has.
RefsExist(bc, tx) ==
  \A k \in 1..Len(tx.Vin) :
    LET prevTx == FindTransaction(bc, tx.Vin[k].Txid)
    IN prevTx # Nil /\ tx.Vin[k].Vout + 1 \in 1..Len(prevTx.Vout)

\* A signature is told by who signed and what was signed; the random number
\* ecdsa.Sign draws does not change what ecdsa.Verify answers.
ecdsaSign(privKeyOf, data) == [by |-> PubKeyOf(privKeyOf), over |-> data]

ecdsaVerify(pubKey, data, signature) == signature = [by |-> pubKey, over |-> data]

\* Blockchain.SignTransaction / Transaction.Sign
SignTransaction(bc, tx, privKeyOf) ==
  IF IsCoinbase(tx) THEN tx
  ELSE [tx EXCEPT !.Vin = [k \in 1..Len(tx.Vin) |->
          [tx.Vin[k] EXCEPT !.Signature = ecdsaSign(privKeyOf, DataToSign(bc, tx, k))]]]

\* Blockchain.VerifyTransaction / Transaction.Verify.  The block of a send
\* holds the reward and the transcript shows the send succeed: a coinbase,
\* whose input references no transaction, passes.
VerifyTransaction(bc, tx) ==
  \/ IsCoinbase(tx)
  \/ /\ RefsExist(bc, tx)
     /\ \A k \in 1..Len(tx.Vin) :
          ecdsaVerify(tx.Vin[k].PubKey, DataToSign(bc, tx, k), tx.Vin[k].Signature)

\* NewUTXOTransaction on the UTXO set, the funds being enough: the inputs in
\* the order ord of the keys of validOutputs, the payment and the change.
NewUTXOTransaction6(bc, from, to, amount, found, ord) ==
  LET vin == Flatten([k \in 1..Len(ord) |->
               LET mine == SelectSeq(found.picked, LAMBDA e : e[1] = ord[k])
               IN [i \in 1..Len(mine) |->
                    [Txid |-> ord[k], Vout |-> mine[i][2], Signature |-> Nil,
                     PubKey |-> PubKeyOf(from)]]])
      vout == <<NewTXOutput(amount, to)>>
                \o (IF found.acc > amount THEN <<NewTXOutput(found.acc - amount, from)>>
                    ELSE <<>>)
  IN SignTransaction(bc, [ID |-> Hash6(vin, vout), Vin |-> vin, Vout |-> vout], from)

\* A SpendInput that saves the entry even when nothing is left of it.
SpendInputKeep(b, vin) ==
  LET outs == Get(b, vin.Txid)
      updateOuts == SelectSeq([i \in 1..Len(outs) |-> [idx |-> i - 1, out |-> outs[i]]],
                              LAMBDA e : e.idx # vin.Vout)
  IN Put(b, vin.Txid, [i \in 1..Len(updateOuts) |-> updateOuts[i].out])

\* The inner loop of Update for one input: the entry of vin.Txid without the
\* output at position vin.Vout, or no entry if nothing is left.
SpendInput(b, vin) ==
  LET outs == Get(b, vin.Txid)
      updateOuts == SelectSeq([i \in 1..Len(outs) |-> [idx |-> i - 1, out |-> outs[i]]],
                              LAMBDA e : e.idx # vin.Vout)
  IN IF updateOuts = <<>> THEN Delete(b, vin.Txid)
     ELSE Put(b, vin.Txid, [i \in 1..Len(updateOuts) |-> updateOuts[i].out])

RECURSIVE SpendInputs(_, _, _)
SpendInputs(b, vins, k) ==
  IF k > Len(vins) THEN b ELSE SpendInputs(SpendInput(b, vins[k]), vins, k + 1)

\* UTXOSet.Update from transaction k of the block on.
RECURSIVE UpdateFrom(_, _, _)
UpdateFrom(b, txs, k) ==
  IF k > Len(txs) THEN b
  ELSE LET tx == txs[k]
           spent == IF IsCoinbase(tx) THEN b ELSE SpendInputs(b, tx.Vin, 1)
       IN UpdateFrom(Put(spent, tx.ID, tx.Vout), txs, k + 1)

\* UTXOSet.Update
Update(b, block) == UpdateFrom(b, block.Transactions, 1)

InitP6 ==
  /\ bc6 = <<>> /\ utxo = <<>> /\ out6 = ""
  /\ IdleData /\ IdleP4 /\ IdleMerkle /\ IdleP1 /\ IdleP3 /\ IdleP5

\* createblockchain -address a: CreateBlockchain, then Reindex.
createBlockchain(address) ==
  IF bc6 # <<>>
  THEN out6' = "Blockchain already exists." /\ UNCHANGED <<bc6, utxo>>
  ELSE LET bc == <<NewGenesisBlock(NewCoinbaseTX6(address, [data |-> genesisData]))>>
       IN bc6' = bc /\ utxo' = Reindex(bc) /\ out6' = "Done!"

\* send -from a -to b -amount n: the transaction, the reward, MineBlock, Update.
send6(from, to, amount) ==
  /\ bc6 # <<>>
  /\ Len(bc6) < MaxBlocks
  /\ \E cursor \in Orders(DOMAIN utxo) :
       LET found == FindSpendableOutputs6(utxo, cursor, HashPubKey(PubKeyOf(from)), amount)
       IN IF found.acc < amount
          THEN out6' = "ERROR: Not enough funds" /\ UNCHANGED <<bc6, utxo>>
          ELSE \E ord \in Orders(PickedIDs(found.picked)) :
                 LET tx == NewUTXOTransaction6(bc6, from, to, amount, found, ord)
                     cbTx == NewCoinbaseTX6(from, RewardData(from))
                     txs == <<cbTx, tx>>
                 IN IF \A k \in 1..Len(txs) : VerifyTransaction(bc6, txs[k])
                    THEN /\ bc6' = MineBlock(bc6, txs)
                         /\ utxo' = Update(utxo, bc6'[Len(bc6')])
                         /\ out6' = "Success!"
                    ELSE out6' = "ERROR: Invalid transaction" /\ UNCHANGED <<bc6, utxo>>

NextP6 ==
  \/ \E a \in Addresses : createBlockchain(a) /\ UNCHANGED <<dataVars, p4Vars, merkleVars, p1Vars, p3Vars, p5Vars>>
  \/ \E from, to \in Addresses : \E amount \in Amounts :
       send6(from, to, amount) /\ UNCHANGED <<dataVars, p4Vars, merkleVars, p1Vars, p3Vars, p5Vars>>

SpecP6 == InitP6 /\ [][NextP6]_vars

\* C9: after createBlockchain and any sequence of send operations the UTXO
\* bucket holds exactly what Reindex would compute from the chain.
C9_UTXOInSync == bc6 # <<>> => utxo = Reindex(bc6)

\* The input at position r = (block, transaction, input) of the chain.
InputAt(bc, r) == bc[r[1]].Transactions[r[2]].Vin[r[3]]

\* The input names an output of a transaction of the chain, and the key the
\* input carries hashes to the PubKeyHash of that output.
OwnsReferenced(bc, in) ==
  LET prevTx == FindTransaction(bc, in.Txid)
  IN /\ prevTx # Nil
     /\ in.Vout + 1 \in 1..Len(prevTx.Vout)
     /\ prevTx.Vout[in.Vout + 1].PubKeyHash = HashPubKey(in.PubKey)

\* C12: no transaction that MineBlock accepted has an input referencing an
\* output whose PubKeyHash differs from the hash of the public key the input
\* carries.
C12_Ownership ==
  \A r \in InputRefs(bc6) : OwnsReferenced(bc6, InputAt(bc6, r))

\* C15: the pairs (txID, outIdx) UTXOSet.FindSpendableOutputs returns, which
\* become the inputs of the transaction a send mines, each name the output at
\* position outIdx of transaction txID of the chain, locked with the sender's
\* pubKeyHash and referenced by no input of the chain.
C15_SpendableFromSet ==
  [][(bc6 # <<>> /\ Len(bc6') = Len(bc6) + 1) =>
       LET tx == bc6'[Len(bc6')].Transactions[2]
       IN \A k \in 1..Len(tx.Vin) :
            /\ OwnsReferenced(bc6, tx.Vin[k])
            /\ <<tx.Vin[k].Txid, tx.Vin[k].Vout>> \notin SpentRefs(bc6)]_vars

(***************************************************************************)
(* Part 6: the Merkle tree.  Bytes are a sequence of symbols; SHA-256 is   *)
(* taken to be collision-free and a hash is one symbol that holds what was *)
(* hashed, so that appending two hashes gives a sequence of two symbols.   *)
(***************************************************************************)
MaxLeaves == 6

\* The serialized transactions a block may hold.
Serialized == {<<[ser |-> "tx1"]>>, <<[ser |-> "tx2"]>>}

TxLists == UNION {[1..n -> Serialized] : n \in 1..MaxLeaves}

sha256(bytes) == <<[sum256 |-> bytes]>>

\* NewMerkleNode(nil, nil, data): a leaf.
NewMerkleLeaf(data) == [Left |-> Nil, Right |-> Nil, Data |-> sha256(data)]

\* NewMerkleNode(left, right, nil)
NewMerkleNode(left, right) ==
  [Left |-> left, Right |-> right, Data |-> sha256(left.Data \o right.Data)]

\* The first lines of NewMerkleTree: an even number of data, one leaf each.
Leaves(data) ==
  LET even == IF Len(data) % 2 # 0 THEN Append(data, data[Len(data)]) ELSE data
  IN [k \in 1..Len(even) |-> NewMerkleLeaf(even[k])]

\* The outer loop runs len(data) / 2 times, data being the evened list.
Rounds(data) == Len(Leaves(data)) \div 2

\* The inner loop: j = 0, 2, ... while j < len(nodes) reads nodes[j] and
\* nodes[j+1]; the read is outside the list when len(nodes) is odd.
InRange(nodes) == Len(nodes) % 2 = 0

NewLevel(nodes) ==
  [k \in 1..(Len(nodes) \div 2) |-> NewMerkleNode(nodes[2 * k - 1], nodes[2 * k])]

\* HashTransactions is called on a block's transactions, serialized.
CallHashTransactions(data) ==
  /\ mt.pc = "idle"
  /\ mt' = [pc |-> "grow", data |-> data, nodes |-> Leaves(data), i |-> 0]

\* One round of the outer loop of NewMerkleTree, or its end.
GrowLevel ==
  /\ mt.pc = "grow"
  /\ IF mt.i < Rounds(mt.data)
     THEN IF InRange(mt.nodes)
          THEN mt' = [mt EXCEPT !.nodes = NewLevel(mt.nodes), !.i = mt.i + 1]
          ELSE mt' = [mt EXCEPT !.pc = "panic: index out of range"]
     ELSE mt' = [mt EXCEPT !.pc = "built"]

\* mTree := MerkleTree{&nodes[0]}; return mTree.RootNode.Data
ReturnRoot ==
  /\ mt.pc = "built"
  /\ mt' = [pc |-> "done", data |-> mt.data, nodes |-> mt.nodes, i |-> mt.i,
            root |-> mt.nodes[1].Data]

InitMerkle ==
  /\ mt = [pc |-> "idle"]
  /\ IdleData /\ IdleP4 /\ IdleP6 /\ IdleP1 /\ IdleP3 /\ IdleP5

NextMerkle ==
  \/ \E data \in TxLists :
       CallHashTransactions(data) /\ UNCHANGED <<dataVars, p4Vars, p6Vars, p1Vars, p3Vars, p5Vars>>
  \/ GrowLevel /\ UNCHANGED <<dataVars, p4Vars, p6Vars, p1Vars, p3Vars, p5Vars>>
  \/ ReturnRoot /\ UNCHANGED <<dataVars, p4Vars, p6Vars, p1Vars, p3Vars, p5Vars>>

SpecMerkle == InitMerkle /\ [][NextMerkle]_vars

Panic == [ok |-> FALSE, panic |-> "index out of range"]

\* The outer loop of NewMerkleTree from round i on, as a function.
RECURSIVE GrowFrom(_, _, _)
GrowFrom(nodes, i, rounds) ==
  IF i >= rounds THEN [ok |-> TRUE, nodes |-> nodes]
  ELSE IF InRange(nodes) THEN GrowFrom(NewLevel(nodes), i + 1, rounds)
       ELSE Panic

\* Block.HashTransactions as a function of the serialized transactions.
HashTransactions(data) ==
  LET grown == GrowFrom(Leaves(data), 0, Rounds(data))
  IN IF grown.ok THEN [ok |-> TRUE, root |-> grown.nodes[1].Data] ELSE Panic

\* C13: for every list of n >= 1 serialized transactions NewMerkleTree makes
\* the leaves even by duplicating the last item, pairs level by level until
\* one node is left, never reads outside the node list, and returns that
\* single node as the root.
C13_MerkleTree ==
  mt.pc # "idle" =>
    /\ Len(Leaves(mt.data)) % 2 = 0
    /\ Len(Leaves(mt.data)) \in {Len(mt.data), Len(mt.data) + 1}
    /\ Leaves(mt.data)[Len(Leaves(mt.data))] = NewMerkleLeaf(mt.data[Len(mt.data)])
    /\ mt.pc # "panic: index out of range"
    /\ mt.pc \in {"built", "done"} => Len(mt.nodes) = 1
    /\ mt.pc = "done" => mt.root = mt.nodes[1].Data

\* C14: two different lists of transactions never yield the same root.
C14_RootUnique ==
  mt.pc = "done" =>
    \A other \in TxLists :
      (other # mt.data /\ HashTransactions(other).ok)
        => HashTransactions(other).root # mt.root

(***************************************************************************)
(* Part 1 (data/blog/blockchain-in-go-1.md): blocks in an array.           *)
(* A text is read as bytes, one symbol per character.                      *)
(***************************************************************************)
MaxTime == 2

\* What time.Now().Unix() may return.
Times == 0..MaxTime

\* The data main adds.
BlockData == {<<"S","e","n","d"," ","1">>, <<"S","e","n","d"," ","2">>}

GenesisBlockData == <<"G","e","n","e","s","i","s"," ","B","l","o","c","k">>

\* []byte(text)
Bytes(text) == [k \in 1..Len(text) |-> [chr |-> text[k]]]

DigitChar(d) == <<"0","1","2","3","4","5","6","7","8","9">>[d + 1]

\* strconv.FormatInt(n, 10) of a non-negative n
RECURSIVE FormatInt(_)
FormatInt(n) ==
  IF n < 10 THEN <<DigitChar(n)>> ELSE Append(FormatInt(n \div 10), DigitChar(n % 10))

\* Block.SetHash
SetHash(b) ==
  LET timestamp == Bytes(FormatInt(b.Timestamp))
      headers == b.PrevBlockHash \o b.Data \o timestamp
  IN [b EXCEPT !.Hash = sha256(headers)]

\* NewBlock of Part 1, the clock showing now.
NewBlock1(data, prevBlockHash, now) ==
  SetHash([Timestamp |-> now, Data |-> Bytes(data), PrevBlockHash |-> prevBlockHash,
           Hash |-> <<>>])

NewGenesisBlock1(now) == NewBlock1(GenesisBlockData, <<>>, now)

InitP1 == bc1 = <<>> /\ IdleData /\ IdleP4 /\ IdleP6 /\ IdleMerkle /\ IdleP3 /\ IdleP5

\* bc := NewBlockchain()
NewBlockchain1(now) ==
  /\ bc1 = <<>>
  /\ bc1' = <<NewGenesisBlock1(now)>>

\* An AddBlock that links the new block to nothing.
AddBlockUnlinked(data, now) ==
  /\ bc1 # <<>>
  /\ Len(bc1) < MaxBlocks
  /\ bc1' = Append(bc1, NewBlock1(data, <<>>, now))

\* bc.AddBlock(data)
AddBlock(data, now) ==
  /\ bc1 # <<>>
  /\ Len(bc1) < MaxBlocks
  /\ LET prevBlock == bc1[Len(bc1)]
         newBlock == NewBlock1(data, prevBlock.Hash, now)
     IN bc1' = Append(bc1, newBlock)

NextP1 ==
  \/ \E now \in Times :
       NewBlockchain1(now) /\ UNCHANGED <<dataVars, p4Vars, p6Vars, merkleVars, p3Vars, p5Vars>>
  \/ \E data \in BlockData : \E now \in Times :
       AddBlock(data, now) /\ UNCHANGED <<dataVars, p4Vars, p6Vars, merkleVars, p3Vars, p5Vars>>

SpecP1 == InitP1 /\ [][NextP1]_vars

\* C19: the chain, once made, has at least one block; the first is the
\* genesis block with an empty PrevBlockHash; every later block's
\* PrevBlockHash is the Hash of the block before it; a step on the chain
\* appends exactly one block and changes none of the blocks it held.
C19_BackLinked ==
  /\ [](bc1 # <<>> =>
         /\ Len(bc1) >= 1
         /\ bc1[1].Data = Bytes(GenesisBlockData)
         /\ bc1[1].PrevBlockHash = <<>>
         /\ \A k \in 2..Len(bc1) :
              /\ bc1[k].PrevBlockHash = bc1[k - 1].Hash
              /\ bc1[k].Hash = SetHash(bc1[k]).Hash)
  /\ [][bc1 # <<>> =>
          /\ Len(bc1') = Len(bc1) + 1
          /\ SubSeq(bc1', 1, Len(bc1)) = bc1]_vars

\* The chain main builds: the genesis block and the two blocks it adds.
C19_Witness ==
  /\ Len(bc1) = 3
  /\ bc1[2].Data = Bytes(<<"S","e","n","d"," ","1">>)
  /\ bc1[3].Data = Bytes(<<"S","e","n","d"," ","2">>)

(***************************************************************************)
(* Part 3 (data/blog/blockchain-in-go/part-6.md, second article): the      *)
(* chain kept in a BoltDB file.  db3 is the file: whether it holds the     *)
(* blocks bucket, and the bucket as a function from keys to values.  tip3  *)
(* is the Blockchain instance of the running program, Unset while no       *)
(* program runs.  The nonce ProofOfWork.Run finds is any of Nonces.        *)
(***************************************************************************)
MaxStored == 3

Nonces == 0..1

\* []byte("l")
lastHashKey == Bytes(<<"l">>)

\* utils.IntToHex: the fixed-width bytes of one number.
IntToHex(n) == <<[int64 |-> n]>>

\* ProofOfWork.prepareData of a block that carries Data
prepareData3(block, nonce) ==
  block.PrevBlockHash \o block.Data \o IntToHex(block.Timestamp)
    \o IntToHex("targetBits") \o IntToHex(nonce)

\* NewBlock of Part 3: the clock showing now, the proof of work ending at nonce.
NewBlock3(data, prevBlockHash, now, nonce) ==
  LET block == [Timestamp |-> now, Data |-> Bytes(data), PrevBlockHash |-> prevBlockHash,
                Hash |-> <<>>, Nonce |-> 0]
  IN [block EXCEPT !.Hash = sha256(prepareData3(block, nonce)), !.Nonce = nonce]

NewGenesisBlock3(now, nonce) == NewBlock3(GenesisBlockData, <<>>, now, nonce)

\* Block.Serialize: the gob encoding of the block.
Serialize3(b) == [gob |-> b]

\* DeserializeBlock
DeserializeBlock3(d) == d.gob

NoBucket == [exists |-> FALSE]

NoIterator == [pc |-> "idle"]

InitP3 ==
  /\ db3 = NoBucket
  /\ tip3 = Unset
  /\ it3 = NoIterator
  /\ log3 = <<>>
  /\ cli3 = <<>>
  /\ IdleData /\ IdleP4 /\ IdleP6 /\ IdleMerkle /\ IdleP1 /\ IdleP5

\* The blocks the bucket stores: every key but 'l'.
StoredHashes(db) == IF db.exists THEN DOMAIN db.blocks \ {lastHashKey} ELSE {}

\* A NewBlockchain that makes the bucket anew whatever the file holds.
NewBlockchainAnew(now, nonce) ==
  /\ tip3 = Unset
  /\ LET genesis == NewGenesisBlock3(now, nonce)
         b1 == Put(<<>>, genesis.Hash, Serialize3(genesis))
         b2 == Put(b1, lastHashKey, genesis.Hash)
     IN /\ db3' = [exists |-> TRUE, blocks |-> b2]
        /\ tip3' = [set |-> TRUE, tip |-> genesis.Hash]

\* bc := blockchain.NewBlockchain(), at the start of a program
NewBlockchain3(now, nonce) ==
  /\ tip3 = Unset
  /\ IF ~db3.exists
     THEN LET genesis == NewGenesisBlock3(now, nonce)
              b0 == <<>>
              b1 == Put(b0, genesis.Hash, Serialize3(genesis))
              b2 == Put(b1, lastHashKey, genesis.Hash)
          IN /\ db3' = [exists |-> TRUE, blocks |-> b2]
             /\ tip3' = [set |-> TRUE, tip |-> genesis.Hash]
     ELSE /\ tip3' = [set |-> TRUE, tip |-> Get(db3.blocks, lastHashKey)]
          /\ db3' = db3

\* An AddBlock that stores the block and leaves 'l' as it was.
AddBlockNoLast(data, now, nonce) ==
  /\ tip3.set
  /\ Cardinality(StoredHashes(db3)) < MaxStored
  /\ LET lastHash == Get(db3.blocks, lastHashKey)
         newBlock == NewBlock3(data, lastHash, now, nonce)
         b1 == Put(db3.blocks, newBlock.Hash, Serialize3(newBlock))
     IN /\ db3' = [db3 EXCEPT !.blocks = b1]
        /\ tip3' = [tip3 EXCEPT !.tip = newBlock.Hash]

\* bc.AddBlock(data)
AddBlock3(data, now, nonce) ==
  /\ tip3.set
  /\ Cardinality(StoredHashes(db3)) < MaxStored
  /\ LET lastHash == Get(db3.blocks, lastHashKey)
         newBlock == NewBlock3(data, lastHash, now, nonce)
         b1 == Put(db3.blocks, newBlock.Hash, Serialize3(newBlock))
         b2 == Put(b1, lastHashKey, newBlock.Hash)
     IN /\ db3' = [db3 EXCEPT !.blocks = b2]
        /\ tip3' = [tip3 EXCEPT !.tip = newBlock.Hash]

\* defer bc.CloseDB(): the program ends, the file stays.
CloseDB ==
  /\ tip3.set
  /\ tip3' = Unset
  /\ db3' = db3

\* Blockchain.Iterator
Iterator3 == [pc |-> "loop", currentHash |-> tip3.tip, printed |-> <<>>]

\* BlockchainIterator.Next: the block it returns and the hash it moves to; a
\* key the bucket lacks gives nothing to decode.
Next3(bci) ==
  IF bci.currentHash \in DOMAIN db3.blocks
  THEN LET encodedBlock == Get(db3.blocks, bci.currentHash)
           block == DeserializeBlock3(encodedBlock)
       IN [ok |-> TRUE, block |-> block, currentHash |-> block.PrevBlockHash]
  ELSE [ok |-> FALSE]

\* CLI.printChain up to its loop: bci := cli.bc.Iterator()
printChainStart ==
  /\ tip3.set
  /\ it3.pc # "loop"
  /\ it3' = Iterator3
  /\ UNCHANGED <<db3, tip3, log3>>

\* A pass of the loop that breaks after the first block whatever it links to.
printChainLoopOnce ==
  /\ it3.pc = "loop"
  /\ LET r == Next3(it3)
     IN it3' = IF ~r.ok THEN [it3 EXCEPT !.pc = "panic"]
               ELSE [pc |-> "done",
                     currentHash |-> r.currentHash,
                     printed |-> Append(it3.printed, r.block)]
  /\ UNCHANGED <<db3, tip3, log3>>

\* One pass of the loop of CLI.printChain: Next, the prints, the break.
printChainLoop ==
  /\ it3.pc = "loop"
  /\ LET r == Next3(it3)
     IN it3' = IF ~r.ok THEN [it3 EXCEPT !.pc = "panic"]
               ELSE [pc |-> IF Len(r.block.PrevBlockHash) = 0 THEN "done" ELSE "loop",
                     currentHash |-> r.currentHash,
                     printed |-> Append(it3.printed, r.block)]
  /\ UNCHANGED <<db3, tip3, log3>>

\* A caller opens the chain, no loop of printChain under way.
Open3(now, nonce) ==
  /\ NewBlockchain3(now, nonce)
  /\ log3' = IF db3.exists THEN log3 ELSE <<NewGenesisBlock3(now, nonce)>>
  /\ it3' = NoIterator

\* A caller adds a block, no loop of printChain under way.
Add3(data, now, nonce) ==
  /\ it3.pc # "loop"
  /\ AddBlock3(data, now, nonce)
  /\ log3' = Append(log3, NewBlock3(data, Get(db3.blocks, lastHashKey), now, nonce))
  /\ it3' = NoIterator

\* The program ends, no loop of printChain under way.
Close3 ==
  /\ it3.pc # "loop"
  /\ CloseDB
  /\ log3' = log3
  /\ it3' = NoIterator

\* The pass as a step of the whole state.
printChainPass ==
  printChainLoop /\ UNCHANGED <<cli3, dataVars, p4Vars, p6Vars, merkleVars, p1Vars, p5Vars>>

NextP3 ==
  \/ \E now \in Times : \E nonce \in Nonces :
       Open3(now, nonce) /\ UNCHANGED <<cli3, dataVars, p4Vars, p6Vars, merkleVars, p1Vars, p5Vars>>
  \/ \E data \in BlockData : \E now \in Times : \E nonce \in Nonces :
       Add3(data, now, nonce) /\ UNCHANGED <<cli3, dataVars, p4Vars, p6Vars, merkleVars, p1Vars, p5Vars>>
  \/ Close3 /\ UNCHANGED <<cli3, dataVars, p4Vars, p6Vars, merkleVars, p1Vars, p5Vars>>
  \/ printChainStart /\ UNCHANGED <<cli3, dataVars, p4Vars, p6Vars, merkleVars, p1Vars, p5Vars>>
  \/ printChainPass

SpecP3 == InitP3 /\ [][NextP3]_vars

\* The loop of printChain is not left half-way: the program keeps running.
SpecP3Live == SpecP3 /\ WF_vars(printChainPass)

\* The value under 'l' names a stored block whose hash it is.
LastIsStored(db) ==
  LET l == Get(db.blocks, lastHashKey)
  IN /\ l \in StoredHashes(db)
     /\ DeserializeBlock3(db.blocks[l]).Hash = l

\* C20: once NewBlockchain has run, and after any AddBlock calls, a
\* serialized block is stored under the value of key 'l' and that value is the
\* tip of the running Blockchain instance; a step that stores a block stores
\* exactly one, leaves 'l' at its hash, and that block's PrevBlockHash is the
\* value 'l' had before (empty for the first block).
C20_PersistedTip ==
  /\ [](/\ db3.exists => LastIsStored(db3)
        /\ tip3.set => db3.exists /\ tip3.tip = Get(db3.blocks, lastHashKey))
  /\ [][StoredHashes(db3') # StoredHashes(db3) =>
          /\ Cardinality(StoredHashes(db3')) = Cardinality(StoredHashes(db3)) + 1
          /\ StoredHashes(db3) \subseteq StoredHashes(db3')
          /\ \A h \in StoredHashes(db3') \ StoredHashes(db3) :
               /\ Get(db3'.blocks, lastHashKey) = h
               /\ tip3'.tip = h
               /\ DeserializeBlock3(db3'.blocks[h]).PrevBlockHash =
                    (IF db3.exists THEN Get(db3.blocks, lastHashKey) ELSE <<>>)]_vars

\* The file of the transcript: the genesis block and two added blocks, the
\* program that added the last one still running.
C20_Witness ==
  /\ tip3.set
  /\ Cardinality(StoredHashes(db3)) = 3
  /\ DeserializeBlock3(db3.blocks[tip3.tip]).Data = Bytes(<<"S","e","n","d"," ","2">>)

\* The last-stored-first order of a list.
Reverse(s) == [k \in 1..Len(s) |-> s[Len(s) + 1 - k]]

\* C21: while printChain loops, the blocks Next has returned are the most
\* recently stored blocks, newest first, none of them the genesis block; when
\* the loop has ended they are all the stored blocks, each once, newest first,
\* the last of them the one with an empty PrevBlockHash; the loop ends.
C21_Iteration ==
  /\ [](it3.pc = "loop" =>
         /\ Len(it3.printed) < Len(log3)
         /\ it3.printed = SubSeq(Reverse(log3), 1, Len(it3.printed))
         /\ \A k \in 1..Len(it3.printed) : it3.printed[k].PrevBlockHash # <<>>)
  /\ [](it3.pc = "done" =>
         /\ it3.printed = Reverse(log3)
         /\ {b.Hash : b \in {log3[k] : k \in 1..Len(log3)}} = StoredHashes(db3)
         /\ Cardinality(StoredHashes(db3)) = Len(log3)
         /\ it3.printed[Len(it3.printed)].PrevBlockHash = <<>>)
  /\ [](it3.pc # "panic")
  /\ (it3.pc = "loop" ~> it3.pc = "done")

\* printChain has printed a chain of three blocks.
C21_Witness ==
  /\ it3.pc = "done"
  /\ Len(it3.printed) = 3
  /\ it3.printed[1].Data = Bytes(<<"S","e","n","d"," ","2">>)
  /\ it3.printed[3].Data = Bytes(GenesisBlockData)

(***************************************************************************)
(* Part 3, the command line: main opens the chain, CLI.Run reads the       *)
(* arguments, and the process ends by returning from main or by os.Exit.   *)
(* An invocation names a subcommand; addblock carries the value of -data   *)
(* (empty when the flag is absent).                                        *)
(***************************************************************************)
NoData == <<>>

Invocations ==
  {<<"addblock", data>> : data \in BlockData \cup {NoData}}
    \cup {<<"printchain">>, <<"help">>}

\* No process: the shell shows what the last one printed last and its status.
AtShell(out, status) == [pc |-> "shell", args |-> <<>>, out |-> out, status |-> status]

InitCLI3 ==
  /\ db3 = NoBucket
  /\ tip3 = Unset
  /\ it3 = NoIterator
  /\ log3 = <<>>
  /\ cli3 = AtShell("", 0)
  /\ IdleData /\ IdleP4 /\ IdleP6 /\ IdleMerkle /\ IdleP1 /\ IdleP5

\* main up to cli.Run(): bc := blockchain.NewBlockchain(); cli := cli.NewCLI(bc)
main(args, now, nonce) ==
  /\ cli3.pc = "shell"
  /\ Open3(now, nonce)
  /\ cli3' = [pc |-> "Run", args |-> args,
              out |-> IF db3.exists THEN ""
                      ELSE "No existing blockchain found. Creating a new one...",
              status |-> 0]

\* cli.printUsage() or addBlockCmd.Usage(), then os.Exit(1): the process is
\* gone with what it held, the file stays as it is.
UsageExit ==
  /\ cli3.pc = "Run"
  /\ \/ cli3.args[1] \notin {"addblock", "printchain"}
     \/ cli3.args[1] = "addblock" /\ cli3.args[2] = NoData
  /\ cli3' = AtShell("Usage:", 1)
  /\ tip3' = Unset
  /\ it3' = NoIterator
  /\ UNCHANGED <<db3, log3>>

\* CLI.Run with addblock -data: cli.addBlock(data)
RunAddBlock(now, nonce) ==
  /\ cli3.pc = "Run"
  /\ cli3.args[1] = "addblock"
  /\ cli3.args[2] # NoData
  /\ Add3(cli3.args[2], now, nonce)
  /\ cli3' = [cli3 EXCEPT !.pc = "return", !.out = "Success!"]

\* CLI.Run with printchain: cli.printChain() up to its loop
RunPrintChain ==
  /\ cli3.pc = "Run"
  /\ cli3.args[1] = "printchain"
  /\ printChainStart
  /\ cli3' = [cli3 EXCEPT !.pc = "printChain"]

\* One pass of the loop of printChain in the process.
RunPrintChainLoop ==
  /\ cli3.pc = "printChain"
  /\ printChainLoop
  /\ cli3' = [cli3 EXCEPT !.pc = IF it3'.pc = "loop" THEN "printChain" ELSE "return",
                          !.out = "Prev. hash:"]

\* main returns: the deferred bc.CloseDB() runs, the status is 0.
mainReturn ==
  /\ cli3.pc = "return"
  /\ Close3
  /\ cli3' = AtShell(cli3.out, 0)

NextCLI3 ==
  \/ \E args \in Invocations : \E now \in Times : \E nonce \in Nonces :
       main(args, now, nonce) /\ UNCHANGED <<dataVars, p4Vars, p6Vars, merkleVars, p1Vars, p5Vars>>
  \/ UsageExit /\ UNCHANGED <<dataVars, p4Vars, p6Vars, merkleVars, p1Vars, p5Vars>>
  \/ \E now \in Times : \E nonce \in Nonces :
       RunAddBlock(now, nonce) /\ UNCHANGED <<dataVars, p4Vars, p6Vars, merkleVars, p1Vars, p5Vars>>
  \/ RunPrintChain /\ UNCHANGED <<dataVars, p4Vars, p6Vars, merkleVars, p1Vars, p5Vars>>
  \/ RunPrintChainLoop /\ UNCHANGED <<dataVars, p4Vars, p6Vars, merkleVars, p1Vars, p5Vars>>
  \/ mainReturn /\ UNCHANGED <<dataVars, p4Vars, p6Vars, merkleVars, p1Vars, p5Vars>>

SpecCLI3 == InitCLI3 /\ [][NextCLI3]_vars

\* C22: a start of the program (NewBlockchain) on a file without the blocks
\* bucket stores one block, the genesis block, under its hash and puts that
\* hash under 'l'; on a file that has the bucket it leaves every key and value
\* as they are and the tip of the new Blockchain is the value under 'l'.
C22_Reopening ==
  [][cli3.pc = "shell" /\ cli3'.pc = "Run" =>
       IF db3.exists
       THEN /\ db3' = db3
            /\ tip3' = [set |-> TRUE, tip |-> Get(db3.blocks, lastHashKey)]
       ELSE /\ db3'.exists
            /\ Cardinality(StoredHashes(db3')) = 1
            /\ \A h \in StoredHashes(db3') :
                 /\ DeserializeBlock3(db3'.blocks[h]).Data = Bytes(GenesisBlockData)
                 /\ DeserializeBlock3(db3'.blocks[h]).PrevBlockHash = <<>>
                 /\ Get(db3'.blocks, lastHashKey) = h
                 /\ tip3' = [set |-> TRUE, tip |-> h]]_vars

\* A program started on a file that holds two blocks.
C22_Witness ==
  /\ cli3.pc = "Run"
  /\ Cardinality(StoredHashes(db3)) = 2
  /\ tip3.set

\* The arguments CLI.Run answers with the usage.
BadArguments(args) ==
  \/ args[1] \notin {"addblock", "printchain"}
  \/ args[1] = "addblock" /\ args[2] = NoData

\* C27: an invocation with a subcommand other than addblock and printchain,
\* or with addblock and an empty -data, ends with the usage printed and status
\* 1, and from its start to its end the stored chain holds the blocks it held.
C27_ArgumentErrors ==
  [][/\ (cli3.pc = "shell" /\ cli3'.pc = "Run" /\ BadArguments(cli3'.args)) =>
          StoredHashes(db3') = StoredHashes(db3)
     /\ (cli3.pc = "Run" /\ BadArguments(cli3.args)) =>
          /\ cli3' = AtShell("Usage:", 1)
          /\ StoredHashes(db3') = StoredHashes(db3)]_vars

\* C23: after Reindex and any number of Update calls every key of the UTXO
\* bucket maps to a list of at least one output.
C23_NoEmptyEntry == \A id \in DOMAIN utxo : Len(utxo[id]) > 0

\* Update has removed an entry: a transaction of the chain has no key in the
\* bucket.
C23_Witness ==
  /\ bc6 # <<>>
  /\ \E k \in 1..Len(IterTxs(bc6)) : IterTxs(bc6)[k].ID \notin DOMAIN utxo

(***************************************************************************)
(* Part 5 (data/blog/blockchain/blockchain-in-go/part-6.md, second         *)
(* article): addresses and signatures.  Here bytes are numbers 0..255 and  *)
(* byte strings are sequences of them, since the code cuts and joins them. *)
(* A hash is any bytes of its length; a number ecdsa yields is any of Nums.*)
(***************************************************************************)
HashLen == 2
ChecksumLen == 2

\* The bytes a hash may hold: zero, the least, the digits of base 58 around
\* its carry, the greatest.
ByteValues == {0, 1, 58, 255}

BytesOfLen(n) == [1..n -> ByteValues]

b58Alphabet ==
  << "1","2","3","4","5","6","7","8","9",
     "A","B","C","D","E","F","G","H","J","K","L","M","N","P","Q","R","S","T","U","V","W","X","Y","Z",
     "a","b","c","d","e","f","g","h","i","j","k","m","n","o","p","q","r","s","t","u","v","w","x","y","z" >>

\* The leading zero digits of a number written as digits.
RECURSIVE LeadingZeros(_)
LeadingZeros(ds) ==
  IF ds # <<>> /\ Head(ds) = 0 THEN 1 + LeadingZeros(Tail(ds)) ELSE 0

StripZeros(ds) == SubSeq(ds, LeadingZeros(ds) + 1, Len(ds))

\* Long division of the number with the digits ds (most significant first, in
\* base from) by to: the digits of the quotient and the remainder.
RECURSIVE DivMod(_, _, _, _, _)
DivMod(ds, from, to, k, acc) ==
  IF k > Len(ds) THEN acc
  ELSE LET cur == acc.r * from + ds[k]
       IN DivMod(ds, from, to, k + 1, [q |-> Append(acc.q, cur \div to), r |-> cur % to])

\* The digits in base to of the number with the digits ds in base from.
RECURSIVE ToBase(_, _, _)
ToBase(ds, from, to) ==
  IF StripZeros(ds) = <<>> THEN <<>>
  ELSE LET d == DivMod(StripZeros(ds), from, to, 1, [q |-> <<>>, r |-> 0])
       IN Append(ToBase(d.q, from, to), d.r)

\* base58.Encode: a "1" for each leading zero byte, then the number in base 58.
Base58Encode(input) ==
  [k \in 1..LeadingZeros(input) |-> "1"]
    \o [k \in 1..Len(ToBase(input, 256, 58)) |-> b58Alphabet[ToBase(input, 256, 58)[k] + 1]]

b58Index(c) == CHOOSE i \in 1..58 : b58Alphabet[i] = c

\* base58.Decode: a zero byte for each leading "1", then the number in base 256.
Base58Decode(text) ==
  LET ds == [k \in 1..Len(text) |-> b58Index(text[k]) - 1]
  IN [k \in 1..LeadingZeros(ds) |-> 0] \o ToBase(ds, 58, 256)

\* Wallet.GetAddress, HashPubKey(w.PublicKey) being pubKeyHash and the
\* checksum of the versioned payload being checksum.
GetAddress(version, pubKeyHash, checksum) ==
  LET versionedPayload == <<version>> \o pubKeyHash
      fullPayload == versionedPayload \o checksum
  IN Base58Encode(fullPayload)

\* A Lock that cuts off the version byte only.
LockKeepChecksum(address) ==
  LET pubKeyHash == Base58Decode(address)
  IN [Value |-> 0, PubKeyHash |-> SubSeq(pubKeyHash, 2, Len(pubKeyHash))]

\* TXOutput.Lock on a fresh output: pubKeyHash[1 : len(pubKeyHash)-addressChecksumLen]
Lock(address) ==
  LET pubKeyHash == Base58Decode(address)
  IN [Value |-> 0, PubKeyHash |-> SubSeq(pubKeyHash, 2, Len(pubKeyHash) - ChecksumLen)]

MaxInputs == 2

\* The numbers ecdsa yields for a coordinate or a half of a signature: of one
\* byte, and of two.
Nums == {1, 255, 256}

\* big.Int.Bytes: the bytes of a number, most significant first, none for 0.
RECURSIVE BigBytes(_)
BigBytes(n) == IF n = 0 THEN <<>> ELSE Append(BigBytes(n \div 256), n % 256)

\* big.Int.SetBytes
RECURSIVE SetBytes(_)
SetBytes(bs) ==
  IF bs = <<>> THEN 0 ELSE SetBytes(SubSeq(bs, 1, Len(bs) - 1)) * 256 + bs[Len(bs)]

\* newKeyPair: append(private.PublicKey.X.Bytes(), private.PublicKey.Y.Bytes()...)
newKeyPair(X, Y) == [X |-> X, Y |-> Y, pubKey |-> BigBytes(X) \o BigBytes(Y)]

\* The transaction the inputs reference: outputs locked with the key's hash.
prevTXsOf(pubKey) ==
  [prev |-> [ID |-> "prev",
             Vout |-> [k \in 1..MaxInputs |-> [Value |-> 5, PubKeyHash |-> HashPubKey(pubKey)]]]]

\* A transaction of n inputs carrying pubKey, not yet signed.
UnsignedTx(n, pubKey) ==
  [ID |-> Nil,
   Vin |-> [k \in 1..n |-> [Txid |-> "prev", Vout |-> k - 1, Signature |-> <<>>,
                            PubKey |-> pubKey]],
   Vout |-> <<[Value |-> 3, PubKeyHash |-> [pkh |-> "recipient"]]>>]

\* Transaction.TrimmedCopy
TrimmedCopy(tx) ==
  [ID |-> tx.ID,
   Vin |-> [k \in 1..Len(tx.Vin) |->
              [Txid |-> tx.Vin[k].Txid, Vout |-> tx.Vin[k].Vout, Signature |-> Nil,
               PubKey |-> Nil]],
   Vout |-> tx.Vout]

\* txCopy.ID of the pass for input inID: the hash of the copy in which that
\* input carries the PubKeyHash of the output it references.
TxCopyID(tx, prevTXs, inID) ==
  LET txCopy == TrimmedCopy(tx)
      vin == txCopy.Vin[inID]
      prevTx == prevTXs[vin.Txid]
  IN [hash |-> [Vin |-> [txCopy.Vin EXCEPT ![inID].PubKey = prevTx.Vout[vin.Vout + 1].PubKeyHash],
                Vout |-> txCopy.Vout]]

\* Transaction.Sign, ecdsa.Sign returning rs[inID] for input inID.
Sign5(tx, prevTXs, rs) ==
  [tx EXCEPT !.Vin = [inID \in 1..Len(tx.Vin) |->
     [tx.Vin[inID] EXCEPT !.Signature = BigBytes(rs[inID].r) \o BigBytes(rs[inID].s)]]]

\* What ecdsa.Sign has signed: for which key, which data, with which numbers.
Signed(key, tx, prevTXs, rs) ==
  {[X |-> key.X, Y |-> key.Y, data |-> TxCopyID(tx, prevTXs, inID),
    r |-> rs[inID].r, s |-> rs[inID].s] : inID \in 1..Len(tx.Vin)}

\* ecdsa.Verify: true of the signatures ecdsa.Sign has made, of no other.
ecdsaVerify5(signed, X, Y, data, r, s) ==
  [X |-> X, Y |-> Y, data |-> data, r |-> r, s |-> s] \in signed

\* Transaction.Verify
Verify5(tx, prevTXs, signed) ==
  \A inID \in 1..Len(tx.Vin) :
    LET vin == tx.Vin[inID]
        sigLen == Len(vin.Signature)
        r == SetBytes(SubSeq(vin.Signature, 1, sigLen \div 2))
        s == SetBytes(SubSeq(vin.Signature, sigLen \div 2 + 1, sigLen))
        keyLen == Len(vin.PubKey)
        x == SetBytes(SubSeq(vin.PubKey, 1, keyLen \div 2))
        y == SetBytes(SubSeq(vin.PubKey, keyLen \div 2 + 1, keyLen))
    IN ecdsaVerify5(signed, x, y, TxCopyID(tx, prevTXs, inID), r, s)

\* The calls to make: an address to build and lock an output with, or a
\* transaction to sign and verify.
AddressCalls ==
  {[op |-> "address", pc |-> "wallet", version |-> v, pubKeyHash |-> h, checksum |-> c,
    address |-> <<>>, out |-> Nil] :
     v \in ByteValues, h \in BytesOfLen(HashLen), c \in BytesOfLen(ChecksumLen)}

SignCalls ==
  {[op |-> "sign", pc |-> "new", key |-> newKeyPair(X, Y),
    tx |-> UnsignedTx(n, newKeyPair(X, Y).pubKey), signed |-> {}, changed |-> FALSE,
    result |-> FALSE] : X \in Nums, Y \in Nums, n \in 1..MaxInputs}

InitP5 ==
  /\ p5 \in AddressCalls \cup SignCalls
  /\ IdleData /\ IdleP4 /\ IdleP6 /\ IdleMerkle /\ IdleP1 /\ IdleP3

\* address := w.GetAddress()
CallGetAddress ==
  /\ p5.op = "address" /\ p5.pc = "wallet"
  /\ p5' = [p5 EXCEPT !.pc = "address",
                      !.address = GetAddress(p5.version, p5.pubKeyHash, p5.checksum)]

\* out.Lock(address)
CallLock ==
  /\ p5.op = "address" /\ p5.pc = "address"
  /\ p5' = [p5 EXCEPT !.pc = "locked", !.out = Lock(p5.address)]

\* tx.Sign(privKey, prevTXs)
CallSign(rs) ==
  /\ p5.op = "sign" /\ p5.pc = "new"
  /\ p5' = [p5 EXCEPT !.pc = "signed",
                      !.tx = Sign5(p5.tx, prevTXsOf(p5.key.pubKey), rs),
                      !.signed = Signed(p5.key, p5.tx, prevTXsOf(p5.key.pubKey), rs)]

\* Somebody changes the value or the recipient of an output of the signed
\* transaction.
ChangeOutput(field) ==
  /\ p5.op = "sign" /\ p5.pc = "signed"
  /\ p5' = [p5 EXCEPT !.pc = "changed", !.changed = TRUE,
                      !.tx.Vout[1] = IF field = "Value"
                                     THEN [@ EXCEPT !.Value = @ + 1]
                                     ELSE [@ EXCEPT !.PubKeyHash = [pkh |-> "another"]]]

\* tx.Verify(prevTXs)
CallVerify ==
  /\ p5.op = "sign" /\ p5.pc \in {"signed", "changed"}
  /\ p5' = [p5 EXCEPT !.pc = "verified",
                      !.result = Verify5(p5.tx, prevTXsOf(p5.key.pubKey), p5.signed)]

NextP5 ==
  \/ CallGetAddress /\ UNCHANGED <<dataVars, p4Vars, p6Vars, merkleVars, p1Vars, p3Vars>>
  \/ CallLock /\ UNCHANGED <<dataVars, p4Vars, p6Vars, merkleVars, p1Vars, p3Vars>>
  \/ /\ p5.op = "sign"
     /\ \E rs \in [1..Len(p5.tx.Vin) -> [r : Nums, s : Nums]] :
          CallSign(rs) /\ UNCHANGED <<dataVars, p4Vars, p6Vars, merkleVars, p1Vars, p3Vars>>
  \/ \E field \in {"Value", "PubKeyHash"} :
       ChangeOutput(field) /\ UNCHANGED <<dataVars, p4Vars, p6Vars, merkleVars, p1Vars, p3Vars>>
  \/ CallVerify /\ UNCHANGED <<dataVars, p4Vars, p6Vars, merkleVars, p1Vars, p3Vars>>

SpecP5 == InitP5 /\ [][NextP5]_vars

\* C24: a transaction signed by Sign, each input carrying the public key of
\* the private key, is answered true by Verify; one whose output value or
\* recipient was changed after signing is answered false.
C24_SignVerify ==
  (p5.op = "sign" /\ p5.pc = "verified") => (p5.result = ~p5.changed)

\* C25: the output locked with a wallet's address holds in PubKeyHash exactly
\* the hash of the wallet's public key, the version byte and the checksum cut
\* off; it is locked with that hash and with no other.
C25_AddressRoundTrip ==
  (p5.op = "address" /\ p5.pc = "locked") =>
    /\ p5.out.PubKeyHash = p5.pubKeyHash
    /\ IsLockedWithKey(p5.out, p5.pubKeyHash)
    /\ \A h \in BytesOfLen(HashLen) : h # p5.pubKeyHash => ~IsLockedWithKey(p5.out, h)

\* An output locked with an address whose payload starts with zero bytes
\* (the version byte 0x00 of the decoded address the post shows, then a hash
\* that starts with a zero too).
C25_Witness ==
  /\ p5.op = "address" /\ p5.pc = "locked"
  /\ p5.version = 0
  /\ p5.pubKeyHash[1] = 0
  /\ Len(p5.address) > 2

(***************************************************************************)
(* Part 4 on the database file.  db4 says whether the file exists and      *)
(* holds the blocks bucket, a function from keys to values; run4 is what   *)
(* the last command printed last, its exit status and the tip of the       *)
(* Blockchain value it made.  A block is found under the bytes of its      *)
(* Hash, 'l' holds the bytes of the last block's Hash.                     *)
(***************************************************************************)
\* []byte(block.Hash)
HashBytes4(h) == <<[hash |-> h]>>

NoFile == [exists |-> FALSE]

InitDB4 ==
  /\ db4 = NoFile
  /\ run4 = [out |-> "", status |-> 0, tip |-> Unset]
  /\ bc4 = <<>> /\ out4 = ""
  /\ IdleData /\ IdleP6 /\ IdleMerkle /\ IdleP1 /\ IdleP3 /\ IdleP5

\* The chain the iterator reads from the block of hash h back, oldest first.
RECURSIVE ChainFrom(_, _)
ChainFrom(blocks, h) ==
  IF h = 0 THEN <<>>
  ELSE LET block == DeserializeBlock3(Get(blocks, HashBytes4(h)))
       IN Append(ChainFrom(blocks, block.PrevBlockHash), block)

\* The chain a file holds.
Chain4(db) ==
  IF db.exists THEN ChainFrom(db.blocks, Get(db.blocks, lastHashKey)[1].hash) ELSE <<>>

\* A CreateBlockchain that does not look whether the file exists.
CreateBlockchainOver(address) ==
  LET cbtx == NewCoinbaseTX(address, genesisData)
      genesis == NewGenesisBlock(cbtx)
      b1 == Put(<<>>, HashBytes4(genesis.Hash), Serialize3(genesis))
      b2 == Put(b1, lastHashKey, HashBytes4(genesis.Hash))
  IN /\ db4' = [exists |-> TRUE, blocks |-> b2]
     /\ run4' = [out |-> "Done!", status |-> 0,
                 tip |-> [set |-> TRUE, tip |-> HashBytes4(genesis.Hash)]]

\* createblockchain -address a: CreateBlockchain, then "Done!"
CreateBlockchain4(address) ==
  IF db4.exists
  THEN /\ run4' = [out |-> "Blockchain already exists.", status |-> 1, tip |-> Unset]
       /\ db4' = db4
  ELSE LET cbtx == NewCoinbaseTX(address, genesisData)
           genesis == NewGenesisBlock(cbtx)
           b1 == Put(<<>>, HashBytes4(genesis.Hash), Serialize3(genesis))
           b2 == Put(b1, lastHashKey, HashBytes4(genesis.Hash))
       IN /\ db4' = [exists |-> TRUE, blocks |-> b2]
          /\ run4' = [out |-> "Done!", status |-> 0,
                      tip |-> [set |-> TRUE, tip |-> HashBytes4(genesis.Hash)]]

\* send -from a -to b -amount n on a file that exists: NewUTXOTransaction,
\* which panics when the funds are short, and MineBlock.
send4(from, to, amount) ==
  /\ db4.exists
  /\ Len(Chain4(db4)) < MaxBlocks
  /\ LET bc == Chain4(db4)
         lastHash == Get(db4.blocks, lastHashKey)
         found == FindSpendableOutputs(bc, from, amount)
     IN IF found.acc < amount
        THEN /\ run4' = [out |-> "ERROR: Not enough funds", status |-> 2,
                         tip |-> [set |-> TRUE, tip |-> lastHash]]
             /\ db4' = db4
        ELSE \E ord \in Orders(PickedIDs(found.picked)) :
               LET tx == NewUTXOTransaction(from, to, amount, found, ord)
                   newBlock == NewBlock(<<tx>>, lastHash[1].hash)
                   b1 == Put(db4.blocks, HashBytes4(newBlock.Hash), Serialize3(newBlock))
                   b2 == Put(b1, lastHashKey, HashBytes4(newBlock.Hash))
               IN /\ db4' = [db4 EXCEPT !.blocks = b2]
                  /\ run4' = [out |-> "Success!", status |-> 0,
                              tip |-> [set |-> TRUE, tip |-> HashBytes4(newBlock.Hash)]]

NextDB4 ==
  \/ \E a \in Addresses :
       CreateBlockchain4(a) /\ UNCHANGED <<bc4, out4, dataVars, p6Vars, merkleVars, p1Vars, p3Vars, p5Vars>>
  \/ \E from, to \in Addresses : \E amount \in Amounts :
       send4(from, to, amount) /\ UNCHANGED <<bc4, out4, dataVars, p6Vars, merkleVars, p1Vars, p3Vars, p5Vars>>

SpecDB4 == InitDB4 /\ [][NextDB4]_vars

\* C26: createblockchain for an address, when the file exists, prints
\* "Blockchain already exists.", ends with status 1 and leaves the file as it
\* is; when no file exists it leaves a file with one block, the genesis block
\* whose one transaction is the coinbase transaction for the address, found
\* under its hash, and 'l' and the tip are that hash.
C26_CreateBlockchain ==
  [][\A a \in Addresses : CreateBlockchain4(a) =>
       IF db4.exists
       THEN /\ run4'.out = "Blockchain already exists."
            /\ run4'.status = 1
            /\ db4' = db4
       ELSE /\ db4'.exists
            /\ Cardinality(DOMAIN db4'.blocks \ {lastHashKey}) = 1
            /\ \A k \in DOMAIN db4'.blocks \ {lastHashKey} :
                 LET block == DeserializeBlock3(db4'.blocks[k])
                 IN /\ block.Transactions = <<NewCoinbaseTX(a, genesisData)>>
                    /\ IsCoinbase(block.Transactions[1])
                    /\ block.Transactions[1].Vout = <<[Value |-> subsidy, ScriptPubKey |-> a]>>
                    /\ block.PrevBlockHash = 0
                    /\ k = HashBytes4(block.Hash)
                    /\ Get(db4'.blocks, lastHashKey) = k
                    /\ run4'.tip = [set |-> TRUE, tip |-> k]]_vars

\* createblockchain has been refused on a file that holds a chain of three.
C26_Witness ==
  /\ run4.out = "Blockchain already exists."
  /\ Len(Chain4(db4)) = 3

\* C28: after createblockchain and any send commands, whatever their amounts,
\* every output of every transaction of the chain has a value above zero and
\* the balance of no address is below zero.
C28_NonNegativeCoins ==
  /\ \A k \in 1..Len(IterTxs(bc4)) :
       \A i \in 1..Len(IterTxs(bc4)[k].Vout) : IterTxs(bc4)[k].Vout[i].Value > 0
  /\ \A a \in Addresses : bc4 # <<>> => getBalance(bc4, a) >= 0

\* C29: within every exported projectsData list no two records have the same
\* title and no two have the same href.
C29_RecordsDistinct ==
  \A L \in ExportedLists : \A i, j \in 1..Len(L) :
    i # j => L[i].title.v # L[j].title.v /\ L[i].href.v # L[j].href.v

\* All three modules are evaluated and the reader holds the record of the
\* longest list whose title another title of that list starts with.
C29_Witness ==
  /\ \A m \in ProjectModules : exports[m].set
  /\ card.set /\ card.rec = projectsData_part_002[5]
  /\ \E i \in 1..Len(projectsData_part_002) :
       i # 5 /\ StartsWith(projectsData_part_002[i].title.v, card.rec.title.v)

=============================================================================
